---- MODULE Spec2Model ----
(***************************************************************************)
(* A model of the RE/flex-derived pattern/lexer core:                      *)
(*   - the 32-bit opcode words of the FSM assembler and their decoders,    *)
(*   - the Lexer::scan() driver around an FSM function,                    *)
(*   - the BufferedInput byte source (transcoding, unget, peek),           *)
(*   - the predictor tables and the predict-match filters,                 *)
(*   - error(), Chars, Position and the modifier map of the FSM generator, *)
(*   - the UTF-8 encoder and decoder, u32str() and utf8(a, b),             *)
(*   - Pattern's ownership of its opcode table, the Tree and DFA arenas    *)
(*     and the edge map of a DFA state,                                    *)
(*   - lexers sharing a pattern, split(), the indent callbacks, and        *)
(*     Input::set_encoding with auto_detect,                               *)
(*   - Input::get_raw_able, termination of scan(), position tracking and   *)
(*     moving of a BufferedInput, and the arguments of to_utf8.            *)
(* 32-bit words are held as four bytes <<b3, b2, b1, b0>> (b3 the high     *)
(* byte) so that every value stays inside 32-bit signed integers;          *)
(* shifts, masks and comparisons are defined on that representation.       *)
(***************************************************************************)
EXTENDS Integers, Sequences, FiniteSets, TLC

VARIABLES
  op,        \* opcode part: the last opcode word built, with its arguments
  lex,       \* lexer part: the Lexer object (cap_, str_, option A, pattern)
  lin,       \* lexer part: the BufferedInput `in` of the lexer
  run,       \* lexer part: bookkeeping of the current scan() call
  bi,        \* input part: the BufferedInput object
  io,        \* input part: what the caller has observed so far
  pd,        \* pattern part: a Pattern::Predictor and the last prediction, or
             \* the Pattern objects of a program and the heap of opcode tables
  gen,       \* generator part: Chars, Position and modifier map of FSM_Generator
  codec      \* codec part: the last to_utf8 / from_utf8 exchange

vars == <<op, lex, lin, run, bi, io, pd, gen, codec>>

(***************************************************************************)
(* Bit operations on bytes and on 32-bit words                             *)
(***************************************************************************)

RECURSIVE BitAnd(_, _)
\* a & b on naturals
BitAnd(a, b) ==
  IF a = 0 \/ b = 0 THEN 0
  ELSE (a % 2) * (b % 2) + 2 * BitAnd(a \div 2, b \div 2)

RECURSIVE BitOr(_, _)
\* a | b on naturals
BitOr(a, b) ==
  IF a = 0 THEN b
  ELSE IF b = 0 THEN a
  ELSE (IF a % 2 = 1 \/ b % 2 = 1 THEN 1 ELSE 0) + 2 * BitOr(a \div 2, b \div 2)

\* static_cast<Opcode>(n) for 0 <= n < 2^31: the four bytes of n
Word(n) == << (n \div 16777216) % 256, (n \div 65536) % 256, (n \div 256) % 256, n % 256 >>

\* the low 24 bits of a word, as a number
Low24(w) == w[2] * 65536 + w[3] * 256 + w[4]

\* the low 16 bits of a word, as a number
Low16(w) == w[3] * 256 + w[4]

WAnd(u, v) == [i \in 1..4 |-> BitAnd(u[i], v[i])]

WOr(u, v) == [i \in 1..4 |-> BitOr(u[i], v[i])]

\* w << 8, w << 16, w << 24 in 32 bits
Shl8(w) == << w[2], w[3], w[4], 0 >>

Shl16(w) == << w[3], w[4], 0, 0 >>

Shl24(w) == << w[4], 0, 0, 0 >>

\* w >> 24 and w >> 16, as numbers
Shr24(w) == w[1]

Shr16(w) == w[1] * 256 + w[2]

\* u >= v, unsigned
WGe(u, v) ==
  \/ u[1] > v[1]
  \/ u[1] = v[1] /\ u[2] > v[2]
  \/ u[1] = v[1] /\ u[2] = v[2] /\ u[3] > v[3]
  \/ u[1] = v[1] /\ u[2] = v[2] /\ u[3] = v[3] /\ u[4] >= v[4]

(***************************************************************************)
(* Opcode words: Pattern (decoders) and FSM_Generator (builders)           *)
(***************************************************************************)

AMAX == \hFDFFFF

GMAX == \hFEFFFF

LMAX == \hFAFFFF

LONG == \hFFFE

HALT == \hFFFF

Meta_MIN == \h100

Meta_NWB == \h101

Meta_DED == \h10D

is_meta(c) == c > Meta_MIN

valid_goto_index(index) == index <= GMAX

valid_lookahead_index(index) == index <= LMAX

opcode_head(index) == WOr(<<\hFB, 0, 0, 0>>, WAnd(Word(index), <<0, \hFF, \hFF, \hFF>>))

opcode_goto(lo, hi, index) ==
  IF is_meta(lo)
  THEN WOr(Shl24(Word(lo)), Word(index))
  ELSE WOr(WOr(Shl24(Word(lo)), Shl16(Word(hi))), Word(index))

opcode_long(index) == WOr(<<\hFF, 0, 0, 0>>, WAnd(Word(index), <<0, \hFF, \hFF, \hFF>>))

opcode_redo == <<\hFD, 0, 0, 0>>

opcode_take(index) == WOr(<<\hFE, 0, 0, 0>>, WAnd(Word(index), <<0, \hFF, \hFF, \hFF>>))

opcode_tail(index) == WOr(<<\hFC, 0, 0, 0>>, WAnd(Word(index), <<0, \hFF, \hFF, \hFF>>))

opcode_halt == <<0, \hFF, \hFF, \hFF>>

\* a plausible slip: a strict comparison, which loses the ranges with lo = hi
is_opcode_goto_strict(opcode) ==
  /\ WGe(Shl8(opcode), WAnd(opcode, <<\hFF, 0, 0, 0>>))
  /\ Shl8(opcode) # WAnd(opcode, <<\hFF, 0, 0, 0>>)

is_opcode_goto(opcode) == WGe(Shl8(opcode), WAnd(opcode, <<\hFF, 0, 0, 0>>))

is_opcode_halt(opcode) == opcode = <<0, \hFF, \hFF, \hFF>>

\* a plausible slip: the test on the high byte left out
is_opcode_meta_any(opcode) == WAnd(opcode, <<0, \hFF, 0, 0>>) = <<0, 0, 0, 0>>

is_opcode_meta(opcode) ==
  WAnd(opcode, <<0, \hFF, 0, 0>>) = <<0, 0, 0, 0>> /\ Shr24(opcode) > 0

is_opcode_head(opcode) == WAnd(opcode, <<\hFF, 0, 0, 0>>) = <<\hFB, 0, 0, 0>>

is_opcode_redo(opcode) == opcode = <<\hFD, 0, 0, 0>>

is_opcode_take(opcode) == WAnd(opcode, <<\hFE, 0, 0, 0>>) = <<\hFE, 0, 0, 0>>

is_opcode_tail(opcode) == WAnd(opcode, <<\hFF, 0, 0, 0>>) = <<\hFC, 0, 0, 0>>

\* a plausible slip: the base of the meta codes left out
meta_of_raw(opcode) == Shr24(opcode) % 65536

\* Char is an unsigned short
meta_of(opcode) == (Meta_MIN + Shr24(opcode)) % 65536

lo_of(opcode) == IF is_opcode_meta(opcode) THEN meta_of(opcode) ELSE Shr24(opcode) % 65536

hi_of(opcode) == IF is_opcode_meta(opcode) THEN meta_of(opcode) ELSE BitAnd(Shr16(opcode), \hFF)

index_of(opcode) == Low16(WAnd(opcode, <<0, 0, \hFF, \hFF>>))

long_index_of(opcode) == Low24(WAnd(opcode, <<0, \hFF, \hFF, \hFF>>))

\* Lookahead is an unsigned short
lookahead_of(opcode) == Low16(WAnd(opcode, <<0, 0, \hFF, \hFF>>)) % 65536

(***************************************************************************)
(* The opcode words the assembler can emit, one per step                   *)
(***************************************************************************)

\* how far around each boundary value the sampled indices reach
Span == 1

RECURSIVE Pow2(_)
Pow2(n) == IF n = 0 THEN 1 ELSE 2 * Pow2(n - 1)

Near(b) == (b - Span)..(b + Span)

\* 16-bit goto indices: both ends of the range (LONG and HALT included)
Idx16 == (0..Span) \cup ((HALT - Span)..HALT)

\* 24-bit indices: every single bit, and the neighbourhood of every limit
Idx24 ==
  { i \in (0..Span) \cup { Pow2(k) : k \in 0..23 }
            \cup Near(HALT) \cup Near(LMAX) \cup Near(AMAX) \cup Near(GMAX)
            \cup ((\hFFFFFF - Span)..\hFFFFFF) : i >= 0 /\ i <= \hFFFFFF }

\* the value of the variables of the parts a specification leaves out
Unused == [pc |-> "off"]

NoOp == [kind |-> "none", lo |-> 0, hi |-> 0, idx |-> 0, word |-> <<0, 0, 0, 0>>]

\* the lexer and the input are left out
NoLexer == lex = Unused /\ lin = Unused /\ run = Unused

NoInput == bi = Unused /\ io = Unused

NoRest == pd = Unused /\ gen = Unused /\ codec = Unused

OpInit == op = NoOp /\ NoLexer /\ NoInput /\ NoRest

\* a byte-range GOTO (HALT is the range 0x00..0xFF with index 0xFFFF)
EmitGoto ==
  /\ op.kind = "none"
  /\ \E lo \in 0..255 : \E hi \in lo..255 : \E index \in Idx16 :
       op' = [kind |-> "goto", lo |-> lo, hi |-> hi, idx |-> index,
              word |-> opcode_goto(lo, hi, index)]
  /\ UNCHANGED <<lex, lin, run, bi, io, pd, gen, codec>>

\* a meta GOTO: lo = hi = the meta code
EmitMeta ==
  /\ op.kind = "none"
  /\ \E m \in Meta_NWB..Meta_DED : \E index \in Idx16 :
       op' = [kind |-> "meta", lo |-> m, hi |-> m, idx |-> index,
              word |-> opcode_goto(m, m, index)]
  /\ UNCHANGED <<lex, lin, run, bi, io, pd, gen, codec>>

EmitLong ==
  /\ op.kind = "none"
  /\ \E index \in Idx24 :
       op' = [kind |-> "long", lo |-> 0, hi |-> 0, idx |-> index, word |-> opcode_long(index)]
  /\ UNCHANGED <<lex, lin, run, bi, io, pd, gen, codec>>

EmitTake ==
  /\ op.kind = "none"
  /\ \E index \in Idx24 :
       op' = [kind |-> "take", lo |-> 0, hi |-> 0, idx |-> index, word |-> opcode_take(index)]
  /\ UNCHANGED <<lex, lin, run, bi, io, pd, gen, codec>>

EmitRedo ==
  /\ op.kind = "none"
  /\ op' = [kind |-> "redo", lo |-> 0, hi |-> 0, idx |-> 0, word |-> opcode_redo]
  /\ UNCHANGED <<lex, lin, run, bi, io, pd, gen, codec>>

EmitTail ==
  /\ op.kind = "none"
  /\ \E index \in Idx24 :
       op' = [kind |-> "tail", lo |-> 0, hi |-> 0, idx |-> index, word |-> opcode_tail(index)]
  /\ UNCHANGED <<lex, lin, run, bi, io, pd, gen, codec>>

EmitHead ==
  /\ op.kind = "none"
  /\ \E index \in Idx24 :
       op' = [kind |-> "head", lo |-> 0, hi |-> 0, idx |-> index, word |-> opcode_head(index)]
  /\ UNCHANGED <<lex, lin, run, bi, io, pd, gen, codec>>

OpNext == EmitGoto \/ EmitMeta \/ EmitLong \/ EmitTake \/ EmitRedo \/ EmitTail \/ EmitHead

\* the argument of the word is within the assembler's size limit for its kind
InLimit ==
  CASE op.kind = "take" -> op.idx <= AMAX
    [] op.kind = "long" -> valid_goto_index(op.idx)
    [] op.kind \in {"tail", "head"} -> valid_lookahead_index(op.idx)
    [] op.kind \in {"goto", "meta"} -> op.lo <= op.hi /\ op.idx <= HALT
    [] op.kind = "redo" -> TRUE
    [] OTHER -> FALSE

\* the kinds whose recognising predicate holds of word w
Recognised(w) ==
  { k \in {"goto", "meta", "take", "redo", "tail", "head"} :
      CASE k = "goto" -> is_opcode_goto(w)
        [] k = "meta" -> is_opcode_meta(w)
        [] k = "take" -> is_opcode_take(w)
        [] k = "redo" -> is_opcode_redo(w)
        [] k = "tail" -> is_opcode_tail(w)
        [] k = "head" -> is_opcode_head(w) }

(***************************************************************************)
(* Claims about the opcode words                                           *)
(***************************************************************************)

\* C7: within the size limits no TAKE, REDO, TAIL, HEAD or LONG word is taken
\* for a GOTO, and every byte-range GOTO word with lo <= hi (HALT included)
\* is recognised as a GOTO.
Thm_C7 ==
  /\ op.kind \in {"take", "redo", "tail", "head", "long"} /\ InLimit
       => ~is_opcode_goto(op.word)
  /\ op.kind = "goto" /\ op.lo <= op.hi => is_opcode_goto(op.word)
  /\ is_opcode_goto(opcode_halt)

\* C7 witness: the TAKE word of the largest accept index has been built
Wit_C7 == op.kind = "take" /\ op.idx = AMAX /\ op.word = <<\hFE, \hFD, \hFF, \hFF>>

\* C8 as stated: an in-limit word satisfies the predicate of its own kind
\* (LONG has none) and the predicate of no other kind.
Orig_C8 ==
  op.kind # "none" /\ InLimit
    => /\ op.kind # "long" => op.kind \in Recognised(op.word)
       /\ Recognised(op.word) \subseteq {op.kind}

\* C8 amended: an in-limit word satisfies the predicate of its own kind;
\* is_opcode_goto and is_opcode_redo hold of no word of another kind; the
\* other predicates overlap in exactly these ways: is_opcode_take also holds
\* of LONG words and of byte-range GOTOs with lo >= 0xFE, is_opcode_tail and
\* is_opcode_head also hold of byte-range GOTOs with lo = 0xFC and lo = 0xFB,
\* and is_opcode_meta also holds of REDO and of the TAKE, TAIL, HEAD and LONG
\* words whose index is below 0x10000.
Thm_C8 ==
  op.kind # "none" /\ InLimit
    => /\ op.kind # "long" => op.kind \in Recognised(op.word)
       /\ is_opcode_goto(op.word) <=> op.kind = "goto"
       /\ is_opcode_redo(op.word) <=> op.kind = "redo"
       /\ is_opcode_take(op.word)
            <=> op.kind \in {"take", "long"} \/ (op.kind = "goto" /\ op.lo >= \hFE)
       /\ is_opcode_tail(op.word)
            <=> op.kind = "tail" \/ (op.kind = "goto" /\ op.lo = \hFC)
       /\ is_opcode_head(op.word)
            <=> op.kind = "head" \/ (op.kind = "goto" /\ op.lo = \hFB)
       /\ is_opcode_meta(op.word)
            <=> \/ op.kind = "meta"
                \/ op.kind \in {"take", "redo", "tail", "head", "long"} /\ op.idx < 65536

\* C8 witness: a LONG word, which is_opcode_take recognises too
Wit_C8 == op.kind = "long" /\ op.idx = GMAX /\ is_opcode_take(op.word)

\* C9: lo_of, hi_of and index_of give back the arguments of a byte-range GOTO
\* with lo <= hi <= 0xFF and a 16-bit index; a meta GOTO of a code in
\* 0x101..0x10D is recognised by is_opcode_meta and lo_of, hi_of return the code.
Thm_C9 ==
  /\ op.kind = "goto" /\ op.lo <= op.hi /\ op.hi <= \hFF /\ op.idx <= \hFFFF
       => lo_of(op.word) = op.lo /\ hi_of(op.word) = op.hi /\ index_of(op.word) = op.idx
  /\ op.kind = "meta" /\ op.lo \in Meta_NWB..Meta_DED /\ op.idx <= \hFFFF
       => /\ is_opcode_meta(op.word)
          /\ lo_of(op.word) = op.lo
          /\ hi_of(op.word) = op.lo

\* C9 witness: the meta GOTO of the largest meta code, to HALT
Wit_C9 == op.kind = "meta" /\ op.lo = Meta_DED /\ op.idx = HALT /\ op.word = <<\h0D, 0, \hFF, \hFF>>

\* C10 as stated: lookahead_of gives back every lookahead id k <= LMAX of a
\* HEAD or TAIL word, and long_index_of every goto index i <= GMAX of a LONG word.
Orig_C10 ==
  /\ op.kind \in {"head", "tail"} /\ valid_lookahead_index(op.idx)
       => lookahead_of(op.word) = op.idx
  /\ op.kind = "long" /\ valid_goto_index(op.idx)
       => long_index_of(op.word) = op.idx

(***************************************************************************)
(* UTF-8 encoding (utf8.h) and Input::get (input.h)                        *)
(***************************************************************************)

EOF == 0 - 1

UNICODE_MAX == \h10FFFF

ERR_CHAR == \h1FFFFF

\* F of the value of v: a local variable, assigned once
Bind(v, F(_)) == CHOOSE r \in {F(x) : x \in {v}} : TRUE

Take(s, n) == SubSeq(s, 1, n)

Drop(s, n) == SubSeq(s, n + 1, Len(s))

Min(a, b) == IF a < b THEN a ELSE b

\* to_utf8(c, s): the bytes written (their number is the value returned)
to_utf8(c) ==
  IF c < \h80 THEN << c >>
  ELSE IF c < \h0800
    THEN << BitOr(\hC0, BitAnd(c \div 64, \h1F)), BitOr(\h80, BitAnd(c, \h3F)) >>
  ELSE IF c < \h010000
    THEN << BitOr(\hE0, BitAnd(c \div 4096, \h0F)),
            BitOr(\h80, BitAnd(c \div 64, \h3F)),
            BitOr(\h80, BitAnd(c, \h3F)) >>
  ELSE << BitOr(\hF0, BitAnd(c \div 262144, \h07)),
          BitOr(\h80, BitAnd(c \div 4096, \h3F)),
          BitOr(\h80, BitAnd(c \div 64, \h3F)),
          BitOr(\h80, BitAnd(c, \h3F)) >>

\* the result of Input::get when nothing is delivered: r is what is left unread
GetNone(r) == [l |-> 0, out |-> <<>>, rest |-> r]

\* the result of Input::get delivering the UTF-8 bytes u
GetSome(u, r) == [l |-> Len(u), out |-> u, rest |-> r]

\* `c < 0x80 ? copy c : to_utf8(c)` at the end of every non-UTF-8 case
GetChar(c, r) == IF c < \h80 THEN GetSome(<<c>>, r) ELSE GetSome(to_utf8(c), r)

\* Input::get on a string-view source holding the raw bytes r.  get_raw()
\* takes one byte when there is one; get_raw(buf, size, 1) takes size bytes
\* when that many are left and nothing otherwise.
Input_get(enc, r) ==
  CASE enc = "utf8" ->
         IF r = <<>> THEN GetNone(r)
         ELSE LET c == Head(r)
                  t == Tail(r)
              IN  IF c >= \hF8 THEN GetNone(t)
                  ELSE IF c < \h80 THEN GetSome(<<c>>, t)
                  ELSE IF c >= \hF0
                    THEN IF Len(t) >= 3 THEN GetSome(<<c>> \o Take(t, 3), Drop(t, 3))
                         ELSE GetNone(t)
                  ELSE IF c >= \hE0
                    THEN IF Len(t) >= 2 THEN GetSome(<<c>> \o Take(t, 2), Drop(t, 2))
                         ELSE GetNone(t)
                  ELSE IF c >= \hC0
                    THEN IF Len(t) >= 1 THEN GetSome(<<c>> \o Take(t, 1), Drop(t, 1))
                         ELSE GetNone(t)
                  ELSE GetNone(t)
    [] enc \in {"utf16be", "utf16le"} ->
         IF Len(r) < 2 THEN GetNone(r)
         ELSE LET be == enc = "utf16be"
                  c  == IF be THEN r[1] * 256 + r[2] ELSE r[1] + r[2] * 256
                  t  == Drop(r, 2)
              IN  IF c < \h80 THEN GetSome(<<c>>, t)
                  ELSE IF c >= \hD800 /\ c < \hE000
                    THEN IF c < \hDC00 /\ Len(t) >= 2
                         THEN LET hi2 == IF be THEN t[1] ELSE t[2]
                                  u2  == IF be THEN t[1] * 256 + t[2] ELSE t[1] + t[2] * 256
                              IN  IF BitAnd(hi2, \hFC) = \hDC
                                  THEN GetSome(to_utf8(\h010000 - \hDC00
                                                       + (c - \hD800) * 1024 + u2),
                                               Drop(t, 2))
                                  ELSE GetSome(to_utf8(ERR_CHAR), Drop(t, 2))
                         ELSE GetSome(to_utf8(ERR_CHAR), t)
                  ELSE GetSome(to_utf8(c), t)
    [] enc \in {"utf32be", "utf32le"} ->
         IF Len(r) < 4 THEN GetNone(r)
         ELSE LET b  == IF enc = "utf32be" THEN Take(r, 4) ELSE <<r[4], r[3], r[2], r[1]>>
                  \* the low 21 bits are all that to_utf8 reads of a value >= 0x10000
                  c  == IF b[1] = 0 THEN Low24(b) ELSE \h200000 + (Low24(b) % \h200000)
              IN  GetChar(c, Drop(r, 4))
    [] enc = "latin1" ->
         IF r = <<>> THEN GetNone(r) ELSE GetChar(Head(r), Tail(r))

(***************************************************************************)
(* BufferedInput (input.h).  A BufferedInput is a record:                  *)
(*   st            source type of Input1_ (the real source)                *)
(*   enc           encoding of Input2_                                     *)
(*   src           the raw bytes Input1_ has not delivered yet             *)
(*   size_buf_raw  size of the raw buffer, 0 when there is none            *)
(*   view          the unread part of the raw buffer (Input2_ as USV);     *)
(*                 with size_buf_raw = 0 Input2_ reads Input1_ directly    *)
(*   buf_u8, pos_buf_u8, dend_buf_u8   the character being handed out      *)
(*   buf_unget     the unget deque, front first                            *)
(*   lineno, colno                                                         *)
(***************************************************************************)

BUFFER_SIZE_DEFAULT == 512 * 1024

\* Input::no_buffer_needed(): string sources are read in place
no_buffer_needed(b) == b.st = "SV"

\* the constructors: Input1_ on the source, Input2_ on Input1_, no raw buffer
BufferedInput(st, enc, bytes) ==
  [st |-> st, enc |-> enc, src |-> bytes, size_buf_raw |-> 0, view |-> <<>>,
   buf_u8 |-> <<0, 0, 0, 0>>, pos_buf_u8 |-> 0, dend_buf_u8 |-> 0,
   buf_unget |-> <<>>, lineno |-> 1, colno |-> 1]

\* resize_buffer(size_new): a smaller buffer keeps the last size_new unread
\* raw bytes and moves the ones before them to the back of the unget deque;
\* size 0 moves them all there and lets Input2_ read Input1_ again
resize_buffer(b, size_new) ==
  IF size_new = b.size_buf_raw THEN b
  ELSE IF size_new = 0
    THEN [b EXCEPT !.size_buf_raw = 0, !.view = <<>>,
                   !.buf_unget = b.buf_unget \o b.view]
  ELSE IF b.size_buf_raw # 0
    THEN LET head == IF size_new < Len(b.view) THEN Len(b.view) - size_new ELSE 0
         IN  [b EXCEPT !.size_buf_raw = size_new,
                       !.view = Drop(b.view, head),
                       !.buf_unget = b.buf_unget \o Take(b.view, head)]
  ELSE [b EXCEPT !.size_buf_raw = size_new, !.view = <<>>]

\* fill_buffer(): move the unread part to the start of the buffer and read
\* from Input1_ into the free space; the value is the number of bytes read
fill_buffer(b) ==
  IF b.size_buf_raw # 0
  THEN LET n == Min(b.size_buf_raw - Len(b.view), Len(b.src))
       IN  [b |-> [b EXCEPT !.view = b.view \o Take(b.src, n),
                            !.src = Drop(b.src, n)],
            filled |-> n]
  ELSE [b |-> b, filled |-> 0]

\* Input2_::get(buf_u8): from the raw buffer, or from Input1_ without one
Input2_get(b) ==
  LET raw == IF b.size_buf_raw # 0 THEN b.view ELSE b.src
      g   == Input_get(b.enc, raw)
      u8  == g.out \o Drop(b.buf_u8, Len(g.out))
  IN  [b |-> IF b.size_buf_raw # 0
             THEN [b EXCEPT !.view = g.rest, !.buf_u8 = u8, !.dend_buf_u8 = g.l]
             ELSE [b EXCEPT !.src = g.rest, !.buf_u8 = u8, !.dend_buf_u8 = g.l],
       l |-> g.l]

\* the tail of get_utf8_byte_ignoring_unget: hand out buf_u8[pos_buf_u8++]
NextByte(b) ==
  LET c == b.buf_u8[b.pos_buf_u8 + 1]
  IN  [b |-> [b EXCEPT !.pos_buf_u8 = b.pos_buf_u8 + 1,
                       !.lineno = IF c = 10 THEN b.lineno + 1 ELSE b.lineno,
                       !.colno = IF c = 10 THEN 1 ELSE b.colno + 1],
       c |-> c]

get_utf8_byte_ignoring_unget(b) ==
  IF b.pos_buf_u8 = b.dend_buf_u8 \/ b.dend_buf_u8 = 0
  THEN Bind(Input2_get(b), LAMBDA g1 :
         IF g1.l = 0
         THEN Bind(fill_buffer(g1.b), LAMBDA f :
                IF f.filled = 0 THEN [b |-> f.b, c |-> EOF]
                ELSE Bind(Input2_get(f.b), LAMBDA g2 :
                       IF g2.l = 0 THEN [b |-> g2.b, c |-> EOF]
                       ELSE NextByte([g2.b EXCEPT !.pos_buf_u8 = 0])))
         ELSE NextByte([g1.b EXCEPT !.pos_buf_u8 = 0]))
  ELSE NextByte(b)

\* the raw buffer a read allocates on first use
WithBuffer(b) ==
  IF b.size_buf_raw = 0 /\ ~no_buffer_needed(b)
  THEN resize_buffer(b, BUFFER_SIZE_DEFAULT) ELSE b

get_utf8_byte(b) ==
  IF b.buf_unget # <<>>
  THEN LET c == Head(b.buf_unget)
       IN  [b |-> [b EXCEPT !.buf_unget = Tail(b.buf_unget),
                            !.lineno = IF c = 10 THEN b.lineno + 1 ELSE b.lineno,
                            !.colno = IF c = 10 THEN 1 ELSE b.colno + 1],
            c |-> c]
  ELSE get_utf8_byte_ignoring_unget(WithBuffer(b))

\* the loop of peek_utf8_byte: read n more bytes behind the unget deque
RECURSIVE PeekLoop(_, _)
PeekLoop(b, n) ==
  Bind(get_utf8_byte_ignoring_unget(b), LAMBDA g :
    IF g.c = EOF THEN g
    ELSE Bind([g.b EXCEPT !.buf_unget = Append(g.b.buf_unget, g.c)], LAMBDA b1 :
           IF n = 1 THEN [b |-> b1, c |-> g.c] ELSE PeekLoop(b1, n - 1)))

peek_utf8_byte(b, i) ==
  IF i < Len(b.buf_unget) THEN [b |-> b, c |-> b.buf_unget[i + 1]]
  ELSE PeekLoop(WithBuffer(b), i - Len(b.buf_unget) + 1)

\* unget(c): note the test `c <= 0x80` for the one-byte case
unget(b, c) ==
  IF c <= \h80
  THEN [b EXCEPT !.buf_unget = <<c>> \o b.buf_unget,
                 !.lineno = IF c = 10 THEN b.lineno - 1 ELSE b.lineno,
                 !.colno = IF c = 10 THEN 1 ELSE b.colno - 1]
  ELSE [b EXCEPT !.buf_unget = to_utf8(c) \o b.buf_unget]

(***************************************************************************)
(* A caller of one BufferedInput: bi is the object, io what the caller has *)
(* seen of it.  The source holds a short text in the chosen encoding.      *)
(***************************************************************************)

MaxChars == 2

MaxBuf == 3

MaxPeek == 1

MaxUnget == 2

SourceTypes == {"FILE_P", "STD_ISTREAM_P", "SV"}

Encodings == {"utf8", "utf16be", "utf16le", "utf32be", "utf32le", "latin1"}

\* one-, two-, three- and four-byte characters, and the newline
CodePoints == {\h0A, \h41, \hE9, \h20AC, \h01F600}

\* a text item above the code points stands for one raw byte that is not the
\* start of any UTF-8 sequence
JunkBase == \h200000

JunkItems == {JunkBase + \h80, JunkBase + \hF8}

IsJunk(x) == x >= JunkBase

UngetChars == {\h0A, \h41, \h80, \h01F600}

\* UTF-8 by its definition (RFC 3629), the reference the bytes are compared to
Utf8Ref(c) ==
  IF c <= \h7F THEN << c >>
  ELSE IF c <= \h07FF THEN << 192 + (c \div 64), 128 + (c % 64) >>
  ELSE IF c <= \hFFFF
    THEN << 224 + (c \div 4096), 128 + ((c \div 64) % 64), 128 + (c % 64) >>
  ELSE << 240 + (c \div 262144), 128 + ((c \div 4096) % 64),
          128 + ((c \div 64) % 64), 128 + (c % 64) >>

Utf16Ref(c) ==
  IF c < \h010000 THEN << c >>
  ELSE << \hD800 + ((c - \h010000) \div 1024), \hDC00 + ((c - \h010000) % 1024) >>

\* the raw bytes of one text item in an encoding
Encode(enc, x) ==
  IF IsJunk(x) THEN << x - JunkBase >>
  ELSE CASE enc = "utf8" -> Utf8Ref(x)
         [] enc = "utf16be" ->
              LET u == Utf16Ref(x)
              IN  IF Len(u) = 1 THEN << u[1] \div 256, u[1] % 256 >>
                  ELSE << u[1] \div 256, u[1] % 256, u[2] \div 256, u[2] % 256 >>
         [] enc = "utf16le" ->
              LET u == Utf16Ref(x)
              IN  IF Len(u) = 1 THEN << u[1] % 256, u[1] \div 256 >>
                  ELSE << u[1] % 256, u[1] \div 256, u[2] % 256, u[2] \div 256 >>
         [] enc = "utf32be" -> << 0, x \div 65536, (x \div 256) % 256, x % 256 >>
         [] enc = "utf32le" -> << x % 256, (x \div 256) % 256, x \div 65536, 0 >>
         [] enc = "latin1" -> << x >>

RECURSIVE EncodeText(_, _)
EncodeText(enc, text) ==
  IF text = <<>> THEN <<>> ELSE Encode(enc, Head(text)) \o EncodeText(enc, Tail(text))

\* the UTF-8 transcoding of a well-formed text
RECURSIVE ExpectedUtf8(_)
ExpectedUtf8(text) ==
  IF text = <<>> THEN <<>> ELSE Utf8Ref(Head(text)) \o ExpectedUtf8(Tail(text))

WellFormed(text) == \A i \in 1..Len(text) : ~IsJunk(text[i])

Items(enc) ==
  IF enc = "utf8" THEN CodePoints \cup JunkItems
  ELSE IF enc = "latin1" THEN {c \in CodePoints : c <= \hFF}
  ELSE CodePoints

Texts(enc) == UNION {[1..n -> Items(enc)] : n \in 0..MaxChars}

\* the bytes the following calls of get_utf8_byte deliver before the first EOF
RECURSIVE Drain(_)
Drain(b) ==
  Bind(get_utf8_byte(b), LAMBDA g :
    IF g.c = EOF THEN <<>> ELSE <<g.c>> \o Drain(g.b))

\* what the n-th following call of get_utf8_byte returns
RECURSIVE GetN(_, _)
GetN(b, n) ==
  Bind(get_utf8_byte(b), LAMBDA g : IF n = 1 THEN g.c ELSE GetN(g.b, n - 1))

\* the bytes not yet handed out: pushed back, pending in buf_u8, buffered, unread
Unread(b) ==
  Len(b.buf_unget) + Len(b.view) + Len(b.src)
  + (IF b.dend_buf_u8 # 0 THEN b.dend_buf_u8 - b.pos_buf_u8 ELSE 0)

\* the last call: left tells that unread bytes remained when it was made,
\* again that the call before it was a get_utf8_byte that returned EOF
NoCall == [op |-> "none", arg |-> 0, ret |-> 0, left |-> FALSE, again |-> FALSE]

\* the previous call was a get_utf8_byte that returned EOF
AtEOF == io.last.op = "get" /\ io.last.ret = EOF

\* before is the object as it was before the last peek, or before the first of
\* the ungets made in a row, and pushed the UTF-8 bytes of the characters
\* those ungets pushed back, last first
NewIO(text) ==
  [text |-> text, last |-> NoCall, pure |-> TRUE, out |-> <<>>, eof |-> FALSE,
   before |-> <<>>, pushed |-> <<>>, nunget |-> 0]

\* a one- and a two-byte character, the newline, and a stray byte
CallerItems == {\h0A, \h41, \hE9, JunkBase + \h80}

\* a file and a string, each without a raw buffer of its own choosing and
\* with the smallest one
CallerSources == {"FILE_P", "SV"} \X {0, 1}

CallerInit ==
  \E sn \in CallerSources :
    LET st == sn[1]
        n  == sn[2]
    IN
    \E text \in UNION {[1..k -> CallerItems] : k \in 0..MaxChars} :
      /\ bi = resize_buffer(BufferedInput(st, "utf8", EncodeText("utf8", text)), n)
      /\ io = NewIO(text)
      /\ op = NoOp /\ NoLexer /\ NoRest

InputInit ==
  \E st \in SourceTypes, enc \in Encodings, n \in 0..MaxBuf :
    \E text \in Texts(enc) :
      /\ bi = resize_buffer(BufferedInput(st, enc, EncodeText(enc, text)), n)
      /\ io = NewIO(text)
      /\ op = NoOp /\ NoLexer /\ NoRest

\* c = in.get_utf8_byte()
Get ==
  LET g == get_utf8_byte(bi)
      first == io.pure /\ ~io.eof
  IN  /\ bi' = g.b
      /\ io' = [io EXCEPT !.last = [op |-> "get", arg |-> 0, ret |-> g.c,
                                    left |-> g.c = EOF /\ Unread(bi) > 0,
                                    again |-> AtEOF],
                          !.out = IF first /\ g.c # EOF THEN Append(@, g.c) ELSE @,
                          !.eof = @ \/ (first /\ g.c = EOF),
                          !.before = <<>>, !.pushed = <<>>]
      /\ UNCHANGED <<op, lex, lin, run, pd, gen, codec>>

\* c = in.peek_utf8_byte(i)
Peek ==
  \E i \in 0..MaxPeek :
    LET p == peek_utf8_byte(bi, i)
    IN  /\ bi' = p.b
        /\ io' = [io EXCEPT !.last = [op |-> "peek", arg |-> i, ret |-> p.c,
                                      left |-> FALSE, again |-> FALSE],
                            !.pure = FALSE, !.out = <<>>, !.eof = FALSE,
                            !.before = bi, !.pushed = <<>>]
        /\ UNCHANGED <<op, lex, lin, run, pd, gen, codec>>

\* in.unget(c)
Unget ==
  \E c \in UngetChars :
    /\ io.nunget < MaxUnget
    /\ bi' = unget(bi, c)
    /\ io' = [io EXCEPT !.last = [op |-> "unget", arg |-> c, ret |-> 0,
                                  left |-> FALSE, again |-> FALSE],
                        !.pure = FALSE, !.out = <<>>, !.eof = FALSE,
                        !.before = IF io.last.op = "unget" THEN @ ELSE bi,
                        !.pushed = Utf8Ref(c) \o (IF io.last.op = "unget"
                                                  THEN @ ELSE <<>>),
                        !.nunget = @ + 1]
    /\ UNCHANGED <<op, lex, lin, run, pd, gen, codec>>

InputNext == Get \/ Peek \/ Unget

(***************************************************************************)
(* Claims about BufferedInput                                              *)
(***************************************************************************)

IsPrefix(s, t) == Len(s) <= Len(t) /\ s = Take(t, Len(s))

\* C3: reading a well-formed source with get_utf8_byte alone, the bytes
\* delivered up to the first EOF are the UTF-8 transcoding of the whole text,
\* whatever the source type and the raw buffer size.
Orig_C3 ==
  (io.pure /\ WellFormed(io.text)) =>
     /\ IsPrefix(io.out, ExpectedUtf8(io.text))
     /\ io.eof => io.out = ExpectedUtf8(io.text)

\* C4: get_utf8_byte returns EOF only when nothing was left to hand out (so a
\* stray byte is never reported as the end of input), and a call that follows
\* one that returned EOF returns EOF too.
Orig_C4 ==
  io.last.op = "get" =>
     /\ io.last.ret = EOF => ~io.last.left
     /\ io.last.again => io.last.ret = EOF

\* C5: peek_utf8_byte(i) returns what the (i+1)-th following get_utf8_byte
\* returns, and the bytes the following calls deliver are the ones they would
\* have delivered without the peek.
Orig_C5 ==
  io.last.op = "peek" =>
     /\ GetN(bi, io.last.arg + 1) = io.last.ret
     /\ Drain(bi) = Drain(io.before)

\* C6: after unget(c1) and then unget(c2) the following calls deliver the
\* UTF-8 bytes of c2, then those of c1, then what would have been read had
\* nothing been pushed back.
Orig_C6 == io.last.op = "unget" => Drain(bi) = io.pushed \o Drain(io.before)

(***************************************************************************)
(* Lexer::scan and the callbacks the FSM function makes (lexer part of     *)
(* input.h).  lex is the lexer (pc tells whether its FSM function is       *)
(* running), lin its BufferedInput `in`, run what a caller and the FSM     *)
(* function have seen: the kind of the last step, the index of the last    *)
(* FSM_TAKE and the value of the last FSM_TAKE or FSM_REDO of the current  *)
(* run of the FSM function (0 for none), the byte c the FSM function got   *)
(* from its last FSM_CHAR, and the value scan() returned.                  *)
(***************************************************************************)

REDO == \h7FFFFFFF

MaxSteps == 3

MaxScans == 2

\* accept indices the FSM function takes
Caps == {1, 2}

LexItems == {\h0A, \h41, \hE9}

LexTexts == UNION {[1..k -> LexItems] : k \in 0..2}

\* a plausible slip: the accept index of the previous scan left in place
scan_begin_keep(l) == [l EXCEPT !.str_ = <<>>]

\* `begin:` of scan()
scan_begin(l) == [l EXCEPT !.str_ = <<>>, !.cap_ = 0]

\* a plausible slip: REDO is never discarded
scan_restart_never(l) == FALSE

\* `if(cap_==REDO && !opt_.A) goto begin;`
scan_restart(l) == l.cap_ = REDO /\ ~l.A

NewRun(kind, r) ==
  [r EXCEPT !.last = kind, !.lastTake = 0, !.lastEvent = 0, !.read = FALSE, !.c = EOF]

LexInit ==
  \E st \in {"SV", "FILE_P"}, text \in LexTexts, A \in BOOLEAN, fsm \in BOOLEAN :
    /\ lex = [pc |-> "idle", cap_ |-> 0, str_ |-> <<>>, A |-> A, fsm |-> fsm]
    /\ lin = BufferedInput(st, "utf8", EncodeText("utf8", text))
    /\ run = [last |-> "none", lastTake |-> 0, lastEvent |-> 0, read |-> FALSE,
              c |-> EOF, steps |-> 0, scans |-> 0, result |-> 0]
    /\ op = NoOp /\ NoInput /\ NoRest

\* a call of scan(): up to the call of the FSM function, or to the return
\* when the current pattern has none
Scan ==
  /\ lex.pc = "idle"
  /\ run.scans < MaxScans
  /\ LET l == scan_begin(lex)
         r == [NewRun("call", run) EXCEPT !.steps = 0, !.scans = @ + 1]
     IN  IF lex.fsm
         THEN lex' = [l EXCEPT !.pc = "fsm"] /\ run' = r
         ELSE lex' = l /\ run' = [r EXCEPT !.last = "return", !.result = l.cap_]
  /\ UNCHANGED <<lin, op, bi, io, pd, gen, codec>>

FsmStep == lex.pc = "fsm" /\ run.steps < MaxSteps

\* c = FSM_CHAR()
FSM_CHAR ==
  /\ FsmStep
  /\ LET g == get_utf8_byte(lin)
     IN  /\ lin' = g.b
         /\ lex' = [lex EXCEPT !.str_ = IF g.c # EOF THEN Append(@, g.c) ELSE @]
         /\ run' = [run EXCEPT !.last = "char", !.read = TRUE, !.c = g.c,
                               !.steps = @ + 1]
  /\ UNCHANGED <<op, bi, io, pd, gen, codec>>

\* FSM_TAKE(cap)
FSM_TAKE ==
  /\ FsmStep
  /\ \E cap \in Caps :
       /\ lex' = [lex EXCEPT !.cap_ = cap]
       /\ run' = [run EXCEPT !.last = "take", !.lastTake = cap, !.lastEvent = cap,
                             !.steps = @ + 1]
  /\ UNCHANGED <<lin, op, bi, io, pd, gen, codec>>

\* FSM_TAKE(cap, c)
FSM_TAKE_c ==
  /\ FsmStep /\ run.read
  /\ \E cap \in Caps :
       /\ lex' = [lex EXCEPT !.cap_ = cap]
       /\ run' = [run EXCEPT !.last = "take", !.lastTake = cap, !.lastEvent = cap,
                             !.steps = @ + 1]
  /\ lin' = IF run.c # EOF THEN unget(lin, run.c) ELSE lin
  /\ UNCHANGED <<op, bi, io, pd, gen, codec>>

\* FSM_REDO()
FSM_REDO ==
  /\ FsmStep
  /\ lex' = [lex EXCEPT !.cap_ = REDO]
  /\ run' = [run EXCEPT !.last = "redo", !.lastEvent = REDO, !.steps = @ + 1]
  /\ UNCHANGED <<lin, op, bi, io, pd, gen, codec>>

\* FSM_REDO(c)
FSM_REDO_c ==
  /\ FsmStep /\ run.read
  /\ lex' = [lex EXCEPT !.cap_ = REDO]
  /\ run' = [run EXCEPT !.last = "redo", !.lastEvent = REDO, !.steps = @ + 1]
  /\ lin' = IF run.c # EOF THEN unget(lin, run.c) ELSE lin
  /\ UNCHANGED <<op, bi, io, pd, gen, codec>>

\* the FSM function returns: scan() starts over or returns cap_
FsmReturn ==
  /\ lex.pc = "fsm"
  /\ IF scan_restart(lex)
     THEN /\ lex' = scan_begin(lex)
          /\ run' = NewRun("restart", run)
     ELSE /\ lex' = [lex EXCEPT !.pc = "idle"]
          /\ run' = [run EXCEPT !.last = "return", !.result = lex.cap_]
  /\ UNCHANGED <<lin, op, bi, io, pd, gen, codec>>

LexNext ==
  Scan \/ FSM_CHAR \/ FSM_TAKE \/ FSM_TAKE_c \/ FSM_REDO \/ FSM_REDO_c \/ FsmReturn

(***************************************************************************)
(* Claims about Lexer::scan                                                *)
(***************************************************************************)

\* C1 as stated: scan() returns the index of the last FSM_TAKE of the run,
\* and 0 when the run made no FSM_TAKE and no FSM_REDO or there is no FSM
\* function.
Orig_C1 ==
  run.last = "return" =>
     /\ run.lastTake # 0 => run.result = run.lastTake
     /\ run.lastEvent = 0 => run.result = 0
     /\ ~lex.fsm => run.result = 0

\* C1, amended: scan() returns what the last FSM_TAKE or FSM_REDO of the run
\* recorded, the accept index of a TAKE or REDO for a REDO (a REDO after a
\* TAKE overrides it), and 0 when the run made neither or there is no FSM
\* function.
Thm_C1 ==
  run.last = "return" =>
     /\ run.result = run.lastEvent
     /\ ~lex.fsm => run.result = 0

\* a run that took an accept index and then executed REDO returned REDO
Wit_C1 ==
  /\ run.last = "return" /\ run.scans = 2
  /\ run.lastTake # 0 /\ run.lastEvent = REDO /\ run.result = REDO

\* C2: with option A off scan() never returns REDO: a REDO result starts the
\* FSM function again with an empty text and the input where the discarded
\* run left it; with option A on a REDO result is returned.
Thm_C2 ==
  [][ /\ run'.last = "restart" =>
           /\ ~lex.A /\ lex.cap_ = REDO
           /\ lin' = lin /\ lex'.str_ = <<>> /\ lex'.pc = "fsm"
      /\ run'.last = "return" =>
           /\ run'.result = REDO => lex.A
           /\ (lex.A /\ lex.cap_ = REDO) => run'.result = REDO
      /\ (lex.pc = "fsm" /\ lex'.pc = "idle") =>
           (lex.cap_ = REDO => lex.A) ]_vars

\* a REDO run that had read input was discarded and the FSM function runs again
Wit_C2 ==
  /\ run.last = "restart" /\ ~lex.A /\ lex.pc = "fsm"
  /\ lin.colno > 1 /\ lin.src = <<>> /\ lex.str_ = <<>>

(***************************************************************************)
(* Pattern::Predictor and the predict-match filters                        *)
(***************************************************************************)

RECURSIVE BitXor(_, _)
\* a ^ b on naturals
BitXor(a, b) ==
  IF a = 0 THEN b
  ELSE IF b = 0 THEN a
  ELSE ((a + b) % 2) + 2 * BitXor(a \div 2, b \div 2)

\* Const::HASH, the size of the predict-match arrays
HASH == \h1000

\* a plausible slip: the byte is or-ed in instead of xor-ed
hash_or(h, b) == BitAnd(BitOr(h * 8, b), HASH - 1)

\* Pattern::hash: ((h << 3) ^ b) & (Const::HASH - 1)
hash(h, b) == BitAnd(BitXor(h * 8, b), HASH - 1)

\* a plausible slip: the table byte is copied as it is
Keep8(x) == x

\* ~x stored into a Pred (unsigned char)
Not8(x) == \hFF - x

\* a pointer to bytes is a record: the null pointer, or [null |-> FALSE,
\* at |-> the bytes, indexed from 0]
nullptr == [null |-> TRUE]

\* Predictor::set(pred): pred is nullptr or points to the blob;
\* P is the object before the call (its members are left as they are
\* wherever the code does not store)
Predictor_set(P, pred) ==
  IF pred.null THEN P
  ELSE
    LET len == pred.at[0]
        min == BitAnd(pred.at[1], \h0F)
        one == BitAnd(pred.at[1], \h10) # 0
        n0  == len + 2
        bitap == min > 0 /\ min > 1 /\ len = 0
        n1  == IF bitap THEN n0 + 256 ELSE n0
    IN  [ len_  |-> len,
          min_  |-> min,
          one_  |-> one,
          pref_ |-> [i \in 0..255 |-> IF i < len THEN pred.at[i + 2] ELSE P.pref_[i]],
          bit_  |-> IF bitap
                    THEN [i \in 0..255 |-> Not8(pred.at[i + n0])]
                    ELSE P.bit_,
          pmh_  |-> IF min > 0 /\ min >= 4
                    THEN [i \in 0..(HASH - 1) |-> Not8(pred.at[i + n1])]
                    ELSE P.pmh_,
          pma_  |-> IF min > 0 /\ ~(min >= 4)
                    THEN [i \in 0..(HASH - 1) |-> Not8(pred.at[i + n1])]
                    ELSE P.pma_ ]

RECURSIVE pmh_loop(_, _, _, _, _, _, _)
\* the while loop of predict_match(pmh, s, n): i is the (1-based) place of
\* the byte *s after ++s, so that ++s < e reads i <= n; probe lists the
\* indices into pmh read so far
pmh_loop(pmh, s, n, i, h, m, probe) ==
  IF ~(i <= n) THEN [ret |-> TRUE, probe |-> probe]
  ELSE
    LET h2 == hash(h, s[i]) IN
    IF BitAnd(pmh[h2], m) # 0
    THEN [ret |-> FALSE, probe |-> Append(probe, h2)]
    ELSE pmh_loop(pmh, s, n, i + 1, h2, (m * 2) % 256, Append(probe, h2))

\* a plausible slip: the loop over the bytes after the fourth is left out
predict_match_pmh4(pmh, s, n) ==
  LET h0 == s[1]
      h1 == hash(h0, s[2])
      h2 == hash(h1, s[3])
      h3 == hash(h2, s[4])
  IN  IF BitAnd(pmh[h0], 1) # 0 THEN [ret |-> FALSE, probe |-> <<h0>>]
      ELSE IF BitAnd(pmh[h1], 2) # 0 THEN [ret |-> FALSE, probe |-> <<h0, h1>>]
      ELSE IF BitAnd(pmh[h2], 4) # 0 THEN [ret |-> FALSE, probe |-> <<h0, h1, h2>>]
      ELSE IF BitAnd(pmh[h3], 8) # 0 THEN [ret |-> FALSE, probe |-> <<h0, h1, h2, h3>>]
      ELSE [ret |-> TRUE, probe |-> <<h0, h1, h2, h3>>]

\* Pattern::predict_match(pmh, s, n), n >= 4: the result, and the indices
\* into pmh that were read
predict_match_pmh(pmh, s, n) ==
  LET h0 == s[1]
      h1 == hash(h0, s[2])
      h2 == hash(h1, s[3])
      h3 == hash(h2, s[4])
  IN  IF BitAnd(pmh[h0], 1) # 0 THEN [ret |-> FALSE, probe |-> <<h0>>]
      ELSE IF BitAnd(pmh[h1], 2) # 0 THEN [ret |-> FALSE, probe |-> <<h0, h1>>]
      ELSE IF BitAnd(pmh[h2], 4) # 0 THEN [ret |-> FALSE, probe |-> <<h0, h1, h2>>]
      ELSE IF BitAnd(pmh[h3], 8) # 0 THEN [ret |-> FALSE, probe |-> <<h0, h1, h2, h3>>]
      ELSE pmh_loop(pmh, s, n, 5, h3, 16, <<h0, h1, h2, h3>>)

\* a plausible slip: the shift tests start at s[0] instead of s[1]
predict_match_pma0(pma, s) ==
  LET b  == s
      h0 == hash(b[1], b[2])
      h1 == hash(h0, b[3])
      h2 == hash(h1, b[4])
      p  == BitOr(BitOr(BitAnd(pma[b[1]], \hC0), BitAnd(pma[h0], \h30)),
                  BitOr(BitAnd(pma[h1], \h0C), BitAnd(pma[h2], \h03)))
      m  == BitOr(BitOr(BitOr(p \div 4, p) \div 4, p) \div 2, p) % 256
  IN  IF m # \hFF THEN 0
      ELSE IF BitAnd(pma[b[1]], \hC0) # \hC0 THEN 1
      ELSE IF BitAnd(pma[b[2]], \hC0) # \hC0 THEN 2
      ELSE IF BitAnd(pma[b[3]], \hC0) # \hC0 THEN 3
      ELSE 4

\* Pattern::predict_match(pma, s): s holds the four bytes s[0..3] at 1..4
predict_match_pma(pma, s) ==
  LET b  == s
      h0 == hash(b[1], b[2])
      h1 == hash(h0, b[3])
      h2 == hash(h1, b[4])
      p  == BitOr(BitOr(BitAnd(pma[b[1]], \hC0), BitAnd(pma[h0], \h30)),
                  BitOr(BitAnd(pma[h1], \h0C), BitAnd(pma[h2], \h03)))
      m  == BitOr(BitOr(BitOr(p \div 4, p) \div 4, p) \div 2, p) % 256
  IN  IF m # \hFF THEN 0
      ELSE IF BitAnd(pma[b[2]], \hC0) # \hC0 THEN 1
      ELSE IF BitAnd(pma[b[3]], \hC0) # \hC0 THEN 2
      ELSE IF BitAnd(pma[b[4]], \hC0) # \hC0 THEN 3
      ELSE 4

\* ---- the predictor blobs and the strings tried ----

\* the longest string handed to predict_match(pmh, s, n)
MaxN == 9

\* the bytes of the strings given to the array filter: 'a', 'b' and a byte
\* above 0x7F; the longer strings given to the hash filter are over 'a', 'b'
PmBytes == {\h61, \h62, \hE9}

HashBytes == {\h61, \h62}

\* the hash values h_0 .. h_(Len(w)-1) of the bytes of w
ChainOf(w) ==
  LET f[k \in 1..Len(w)] == IF k = 1 THEN w[1] ELSE hash(f[k - 1], w[k])
  IN  [k \in 1..Len(w) |-> f[k]]

\* the 8-byte words a hash table is built from
PmWords(seed) ==
  IF seed = 1 THEN { <<\h61, \h62, \h61, \h62, \h61, \h62, \h61, \h62>> }
  ELSE { [k \in 1..8 |-> \h61], [k \in 1..8 |-> \h62] }

\* the byte at index i of a table that allows exactly the given hash chains:
\* bit k is set where some chain has its k-th hash value
ChainBits(chains, i) ==
  LET bit(k) == IF \E c \in chains : c[k + 1] = i THEN Pow2(k) ELSE 0
  IN  bit(0) + bit(1) + bit(2) + bit(3) + bit(4) + bit(5) + bit(6) + bit(7)

\* the 4096 table bytes of a blob, as written (before set complements them)
PmTable(min, seed) ==
  IF seed = 0 THEN [i \in 1..HASH |-> ((i - 1) * 37 + 11) % 256]
  ELSE IF min >= 4
  THEN Bind({ChainOf(w) : w \in PmWords(seed)},
            LAMBDA chains : [i \in 1..HASH |-> ChainBits(chains, i - 1)])
  ELSE IF seed = 1 THEN [i \in 1..HASH |-> IF i - 1 = \h61 THEN \hFF ELSE 0]
  ELSE [i \in 1..HASH |-> 0]

\* the parts of a blob: header bytes, prefix, bitap (or none), table (or none)
BlobParts(len, flag, seed) ==
  LET min == flag % 16 IN
  [ hdr    |-> <<len, flag>>,
    prefix |-> [k \in 1..len |-> \h60 + k],
    bitap  |-> IF min > 1 /\ len = 0 THEN [i \in 1..256 |-> ((i - 1) * 3 + seed) % 256]
               ELSE <<>>,
    table  |-> IF min > 0 THEN PmTable(min, seed) ELSE <<>> ]

\* the blob as the array handed to Predictor::set, indexed from 0
PredOf(blob) ==
  IF blob.null THEN nullptr
  ELSE Bind(BlobParts(blob.len, blob.flag, blob.seed),
            LAMBDA q : Bind(q.hdr \o q.prefix \o q.bitap \o q.table,
                            LAMBDA a : [null |-> FALSE,
                                        at |-> [i \in 0..(Len(a) - 1) |-> a[i + 1]]]))

\* the blobs tried: no blob, or a prefix length, a flag byte and table contents
PmBlobs ==
  {nullptr} \cup
  [null : {FALSE}, len : {0, 2}, flag : {\h00, \h11, \h02, \h13, \h04, \h18},
   seed : {0, 1, 2}]

\* a Predictor whose members hold whatever the storage held (fill byte j)
FreshPredictor(j) ==
  [ len_ |-> j, min_ |-> j, one_ |-> j # 0,
    pref_ |-> [i \in 0..255 |-> j],
    bit_  |-> [i \in 0..255 |-> j],
    pmh_  |-> [i \in 0..(HASH - 1) |-> j],
    pma_  |-> [i \in 0..(HASH - 1) |-> j] ]

NoPredict == [fn |-> "none"]

PredInit ==
  /\ \E blob \in PmBlobs, j \in {0, \hA5} :
       pd = [pc |-> "new", P |-> FreshPredictor(j), blob |-> blob, junk |-> j,
             last |-> NoPredict]
  /\ op = NoOp /\ NoLexer /\ NoInput /\ gen = Unused /\ codec = Unused

\* Predictor(pred): the constructor calls set(pred)
PredSet ==
  /\ pd.pc = "new"
  /\ pd' = [pd EXCEPT !.pc = "set",
                      !.P = Bind(PredOf(pd.blob), LAMBDA pred : Predictor_set(pd.P, pred)),
                      !.last = [fn |-> "set"]]
  /\ UNCHANGED <<op, lex, lin, run, bi, io, gen, codec>>

\* a search loop asks the hash filter about the n bytes at s (patterns of
\* minimum length 4 or more have the pmh table)
PredictHash ==
  /\ pd.pc = "set" /\ ~pd.blob.null /\ pd.P.min_ >= 4
  /\ \E n \in 4..MaxN : \E s \in [1..n -> HashBytes] :
       pd' = [pd EXCEPT !.pc = "asked", !.last =
                Bind(predict_match_pmh(pd.P.pmh_, s, n),
                     LAMBDA r : [fn |-> "pmh", s |-> s, n |-> n,
                                 ret |-> r.ret, probe |-> r.probe])]
  /\ UNCHANGED <<op, lex, lin, run, bi, io, gen, codec>>

\* a search loop asks the array filter about the four bytes at s (patterns
\* of minimum length 1 to 3 have the pma table)
PredictArray ==
  /\ pd.pc = "set" /\ ~pd.blob.null /\ pd.P.min_ \in 1..3
  /\ \E s \in [1..4 -> PmBytes] :
       pd' = [pd EXCEPT !.pc = "asked",
                        !.last = [fn |-> "pma", s |-> s,
                                   ret |-> predict_match_pma(pd.P.pma_, s)]]
  /\ UNCHANGED <<op, lex, lin, run, bi, io, gen, codec>>

PredNext == PredSet \/ PredictHash \/ PredictArray

\* ---- claims about the predictor ----

\* a ^ b for a, b < 2^16, one bit at a time
XorRef(a, b) ==
  LET f[i \in 0..16] ==
        IF i = 16 THEN 0
        ELSE (((a \div Pow2(i)) + (b \div Pow2(i))) % 2) * Pow2(i) + f[i + 1]
  IN  f[0]

\* C11: every index predict_match(pmh, s, n) reads is below 4096, the first
\* one is the first byte itself (h_0 = b_0), and each later one is
\* ((h << 3) XOR b) AND 0xFFF of the index before it and the next byte.
Thm_C11 ==
  pd.last.fn = "pmh" =>
    LET pr == pd.last.probe
        s  == pd.last.s
    IN  /\ Len(pr) \in 1..pd.last.n
        /\ pr[1] = s[1]
        /\ \A k \in 1..Len(pr) : pr[k] \in 0..4095 /\ pr[k] \in DOMAIN pd.P.pmh_
        /\ \A k \in 2..Len(pr) : pr[k] = XorRef((pr[k - 1] * 8) % 65536, s[k]) % 4096

\* a prediction that went through all nine bytes of a nine-byte string whose
\* hash values need the mask (h * 8 exceeds 12 bits)
Wit_C11 ==
  /\ pd.last.fn = "pmh" /\ pd.last.n = 9 /\ Len(pd.last.probe) = 9
  /\ \E k \in 2..9 : pd.last.probe[k - 1] * 8 >= 4096

\* the hash values of the bytes of s, from the formula of the rolling hash
RefChain(s) ==
  LET f[k \in 1..Len(s)] ==
        IF k = 1 THEN s[1] ELSE XorRef((f[k - 1] * 8) % 65536, s[k]) % 4096
  IN  [k \in 1..Len(s) |-> f[k]]

\* bit 1 << k of the byte x
BitSet(x, k) == (x \div Pow2(k)) % 2 = 1

\* C12: for n >= 4, predict_match(pmh, s, n) returns false exactly when for
\* some offset k < n, k <= 7, bit 1 << k is set in pmh[h_k]; otherwise true.
Thm_C12 ==
  pd.last.fn = "pmh" =>
    LET s == pd.last.s
        n == pd.last.n
        h == RefChain(s)
    IN  /\ n >= 4
        /\ pd.last.ret \in BOOLEAN
        /\ (pd.last.ret = FALSE) <=>
             \E k \in 0..7 : k < n /\ BitSet(pd.P.pmh_[h[k + 1]], k)

\* a nine-byte string refused at its eighth byte (k = 7) only
Wit_C12 ==
  /\ pd.last.fn = "pmh" /\ pd.last.n = 9 /\ pd.last.ret = FALSE
  /\ Len(pd.last.probe) = 8

\* a nine-byte string let through: no bit set at offsets 0..7, and the ninth
\* byte is never looked up under a mask
Wit_C12_true == pd.last.fn = "pmh" /\ pd.last.n = 9 /\ pd.last.ret = TRUE

\* the byte b is flagged in pma as unable to start a match
Flagged(pma, b) == BitSet(pma[b], 7) /\ BitSet(pma[b], 6)

\* the array filter predicts a match at s: the merged byte m of the code is
\* not 0xFF, written out on the bits of the four table bytes that feed it
\* (bits 7,6 of pma[s[0]], 5,4 of pma[h_1], 3,2 of pma[h_2], 1,0 of pma[h_3])
PredictedAt(pma, s) ==
  LET h == RefChain(s)
      p(i) == IF i >= 6 THEN BitSet(pma[s[1]], i)
              ELSE IF i >= 4 THEN BitSet(pma[h[2]], i)
              ELSE IF i >= 2 THEN BitSet(pma[h[3]], i)
              ELSE BitSet(pma[h[4]], i)
  IN  ~ ( /\ p(7)
          /\ p(5) \/ p(6)
          /\ p(3) \/ p(4) \/ p(6)
          /\ p(1) \/ p(2) \/ p(4) \/ p(6)
          /\ p(0) \/ p(1) \/ p(3) \/ p(5) )

\* C13: predict_match(pma, s) returns 0 when a match is predicted at s, and
\* otherwise a shift k in 1..4 such that every byte s[j], 1 <= j < k, is
\* flagged in pma and, when k < 4, s[k] is not flagged.
\* (s[j] of the code is s[j + 1] here.)
Thm_C13 ==
  pd.last.fn = "pma" =>
    LET s == pd.last.s
        k == pd.last.ret
        pma == pd.P.pma_
    IN  /\ k \in 0..4
        /\ (k = 0) <=> PredictedAt(pma, s)
        /\ k > 0 => /\ \A j \in 1..(k - 1) : Flagged(pma, s[j + 1])
                    /\ k < 4 => ~Flagged(pma, s[k + 1])

\* a shift of 3: s[1] and s[2] cannot start a match, s[3] can
Wit_C13 ==
  /\ pd.last.fn = "pma" /\ pd.last.ret = 3
  /\ Flagged(pd.P.pma_, pd.last.s[2]) /\ ~Flagged(pd.P.pma_, pd.last.s[4])

\* the other outcomes of the array filter
Wit_C13_shifts ==
  [k \in 0..4 |-> pd.last.fn = "pma" /\ pd.last.ret = k]

\* the bytes t (indexed from 0) are the bitwise complements of the bytes q
\* (indexed from 1)
Complemented(t, q, size) ==
  /\ Len(q) = size
  /\ \A i \in 0..(size - 1) : t[i] + q[i + 1] = 255 /\ BitAnd(t[i], q[i + 1]) = 0

\* the Predictor P holds the parts q of a blob, decoded; old is the object
\* before the call
DecodedAs(P, old, q) ==
  LET len == q.hdr[1]
      min == q.hdr[2] % 16
  IN  /\ P.len_ = len
      /\ P.min_ = min
      /\ P.one_ = ((q.hdr[2] \div 16) % 2 = 1)
      /\ \A i \in 0..255 :
           P.pref_[i] = IF i < len THEN q.prefix[i + 1] ELSE old.pref_[i]
      /\ IF min > 1 /\ len = 0
         THEN Complemented(P.bit_, q.bitap, 256)
         ELSE P.bit_ = old.bit_ /\ q.bitap = <<>>
      /\ IF min >= 4
         THEN Complemented(P.pmh_, q.table, 4096) /\ P.pma_ = old.pma_
         ELSE IF min > 0
         THEN Complemented(P.pma_, q.table, 4096) /\ P.pmh_ = old.pmh_
         ELSE P.pmh_ = old.pmh_ /\ P.pma_ = old.pma_ /\ q.table = <<>>

\* C14: Predictor::set decodes the blob as: prefix length = byte 0, min = low
\* 4 bits of byte 1, one = bit 4 of byte 1, the next len bytes = prefix; a
\* 256-byte bitap follows only when min > 1 and the prefix is empty; then,
\* when min > 0, 4096 bytes are loaded into pmh if min >= 4 and into pma
\* otherwise; every table byte is stored complemented.  What is not loaded
\* keeps the value it had.
Thm_C14 ==
  pd.last.fn = "set" =>
    Bind(FreshPredictor(pd.junk),
         LAMBDA old :
           IF pd.blob.null THEN pd.P = old
           ELSE Bind(BlobParts(pd.blob.len, pd.blob.flag, pd.blob.seed),
                     LAMBDA q : DecodedAs(pd.P, old, q)))

\* a blob with empty prefix, min = 8 and one set: the bitap and the pmh
\* table are loaded, complemented, and pma keeps what the storage held
Wit_C14 ==
  /\ pd.last.fn = "set" /\ ~pd.blob.null
  /\ pd.blob.len = 0 /\ pd.blob.flag = \h18 /\ pd.blob.seed = 0 /\ pd.junk = \hA5
  /\ pd.P.min_ = 8 /\ pd.P.one_
  /\ pd.P.bit_[1] = \hFC /\ pd.P.pmh_[0] = \hF4 /\ pd.P.pma_[0] = \hA5

\* a blob with a two-byte prefix and min = 3: no bitap, the table goes to pma
Wit_C14_pma ==
  /\ pd.last.fn = "set" /\ ~pd.blob.null
  /\ pd.blob.len = 2 /\ pd.blob.flag = \h13 /\ pd.blob.seed = 1 /\ pd.junk = \hA5
  /\ pd.P.pref_[0] = \h61 /\ pd.P.pref_[1] = \h62 /\ pd.P.pref_[2] = \hA5
  /\ pd.P.pma_[\h61] = 0 /\ pd.P.pma_[\h62] = \hFF /\ pd.P.bit_[0] = \hA5

(***************************************************************************)
(* FSM_Generator: error(), Chars, Position, modifier map                   *)
(* A 64-bit word (unsigned long long) is held as four 16-bit limbs         *)
(* <<l3, l2, l1, l0>>, l3 the high one.                                    *)
(***************************************************************************)

W64_zero == <<0, 0, 0, 0>>

W64_ones == <<\hFFFF, \hFFFF, \hFFFF, \hFFFF>>

\* ~w
W64_not(w) == [i \in 1..4 |-> \hFFFF - w[i]]

\* v & w, v | w, v ^ w
W64_and(v, w) == [i \in 1..4 |-> BitAnd(v[i], w[i])]

W64_or(v, w) == [i \in 1..4 |-> BitOr(v[i], w[i])]

W64_xor(v, w) == [i \in 1..4 |-> BitXor(v[i], w[i])]

\* 1ULL << j, 0 <= j < 64
W64_bit(j) == [i \in 1..4 |-> IF 4 - i = j \div 16 THEN Pow2(j % 16) ELSE 0]

\* v + w in 64 bits
W64_add(v, w) ==
  LET s0 == v[4] + w[4]
      s1 == v[3] + w[3] + (s0 \div \h10000)
      s2 == v[2] + w[2] + (s1 \div \h10000)
      s3 == v[1] + w[1] + (s2 \div \h10000)
  IN  << s3 % \h10000, s2 % \h10000, s1 % \h10000, s0 % \h10000 >>

\* ---- FSM_Generator::error ----

\* regex_error::error_code
ErrorCodes ==
  { "mismatched_parens", "mismatched_braces", "mismatched_brackets",
    "mismatched_quotation", "empty_expression", "empty_class", "invalid_class",
    "invalid_class_range", "invalid_escape", "invalid_anchor", "invalid_repeat",
    "invalid_quantifier", "invalid_modifier", "invalid_collating",
    "invalid_backreference", "invalid_syntax", "exceeds_length", "exceeds_limits",
    "undefined_name" }

\* a plausible slip: every error is fatal
error_always(opt, code, pos) ==
  [ printed |-> opt.print_error, thrown |-> TRUE, err |-> [code |-> code, pos |-> pos] ]

\* FSM_Generator::error(code, pos): what reaches stderr and whether the
\* regex_error leaves the function as an exception
error(opt, code, pos) ==
  LET err == [code |-> code, pos |-> pos] IN
  [ printed |-> opt.print_error,
    thrown  |-> (code = "exceeds_limits" \/ opt.throw_error),
    err     |-> err ]

\* the places in the regex an error is reported at
ErrPositions == {0, 1, 7}

ErrInit ==
  /\ \E r \in BOOLEAN, w \in BOOLEAN :
       gen = [pc |-> "compile", opt |-> [throw_error |-> r, print_error |-> w],
              errors |-> 0, last |-> [code |-> "none"]]
  /\ op = NoOp /\ NoLexer /\ NoInput /\ pd = Unused /\ codec = Unused

\* the compiler reports an error; when error() returns it goes on (and may
\* report another one), when error() throws the compilation is over
ReportError ==
  /\ gen.pc = "compile"
  /\ \E code \in ErrorCodes, pos \in ErrPositions :
       LET e == error(gen.opt, code, pos) IN
       gen' = [gen EXCEPT !.pc = IF e.thrown THEN "thrown" ELSE "compile",
                          !.errors = IF gen.errors = 0 THEN 1 ELSE 2,
                          !.last = [code |-> code, pos |-> pos,
                                    printed |-> e.printed, thrown |-> e.thrown]]
  /\ UNCHANGED <<op, lex, lin, run, bi, io, pd, codec>>

\* C15: error throws the regex_error if and only if the code is
\* exceeds_limits or the throw option (r) is set; otherwise it returns to
\* the compiler; the message is printed exactly when the print option is set.
Thm_C15 ==
  gen.last.code # "none" =>
    /\ gen.last.thrown <=> (gen.last.code = "exceeds_limits" \/ gen.opt.throw_error)
    /\ gen.last.printed <=> gen.opt.print_error
    /\ (gen.pc = "thrown") <=> gen.last.thrown
    /\ (gen.pc = "compile") <=> ~gen.last.thrown

\* a second error reported after error() returned from a first one that was
\* printed, with option r off
Wit_C15 ==
  /\ gen.pc = "compile" /\ gen.errors = 2 /\ ~gen.opt.throw_error
  /\ gen.last.code = "invalid_escape" /\ gen.last.printed /\ ~gen.last.thrown

\* exceeds_limits is thrown although option r is off
Wit_C15_limits ==
  /\ gen.pc = "thrown" /\ ~gen.opt.throw_error /\ gen.last.code = "exceeds_limits"

\* ---- FSM_Generator::Chars ----
\* A Chars is the array b[0..4] of 64-bit words: bits 0..255 for the 8-bit
\* characters, bits 256..319 for the meta characters.

\* Chars(): clear()
Chars_new == [i \in 0..4 |-> W64_zero]

\* contains(Char c): b[c >> 6] & (1ULL << (c & 0x3F))
Chars_contains(x, c) == W64_and(x[c \div 64], W64_bit(BitAnd(c, \h3F))) # W64_zero

\* insert(Char c): b[c >> 6] |= 1ULL << (c & 0x3F)
Chars_insert(x, c) ==
  [x EXCEPT ![c \div 64] = W64_or(x[c \div 64], W64_bit(BitAnd(c, \h3F)))]

RECURSIVE Chars_insert_range(_, _, _)
\* insert(Char lo, Char hi): while (lo <= hi) insert(lo++)
Chars_insert_range(x, lo, hi) ==
  IF lo <= hi
  THEN Bind(Chars_insert(x, lo), LAMBDA y : Chars_insert_range(y, lo + 1, hi))
  ELSE x

\* a plausible slip: flip() is called, which complements all five words
Chars_flip(x) == [i \in 0..4 |-> W64_not(x[i])]

\* flip256(): b[0..3] are complemented
Chars_flip256(x) == [i \in 0..4 |-> IF i <= 3 THEN W64_not(x[i]) ELSE x[i]]

\* a plausible slip: operator^ is used where operator& was meant
Chars_xor(x, y) == [i \in 0..4 |-> W64_xor(x[i], y[i])]

\* operator|=, operator|
Chars_or(x, y) == [i \in 0..4 |-> W64_or(x[i], y[i])]

\* operator&=, operator&
Chars_and(x, y) == [i \in 0..4 |-> W64_and(x[i], y[i])]

\* operator==
Chars_eq(x, y) == \A i \in 0..4 : x[i] = y[i]

\* bit c of the 320 bits of a Chars, read from the limb that holds it
BitAt(x, c) == (x[c \div 64][4 - ((c % 64) \div 16)] \div Pow2(c % 16)) % 2 = 1

\* the members of a Chars
Chars_members(x) == {c \in 0..319 : BitAt(x, c)}

\* the most characters put into a set one by one
MaxInsert == 3

\* characters put into the sets: the top bits of words 0, 3 and 4, and the
\* meta character DED
CharItems == {\h3F, \hFF, Meta_DED, \h13F}

\* ranges put into the sets: inside a word, across words, across the
\* boundary of the 8-bit characters
CharRanges == { <<\h41, \h5A>>, <<\h3E, \h41>>, <<\hFE, Meta_DED>> }

CharsInit ==
  /\ gen = [pc |-> "build", A |-> Chars_new, B |-> Chars_new, C |-> Chars_new,
            n |-> 0, last |-> [fn |-> "none"]]
  /\ op = NoOp /\ NoLexer /\ NoInput /\ pd = Unused /\ codec = Unused

\* A.insert(c), B.insert(c) or C.insert(c)
CharsInsert ==
  /\ gen.pc = "build" /\ gen.n < MaxInsert
  /\ \E r \in {"A", "B", "C"}, c \in CharItems :
       gen' = [gen EXCEPT ![r] = Chars_insert(gen[r], c), !.n = gen.n + 1]
  /\ UNCHANGED <<op, lex, lin, run, bi, io, pd, codec>>

\* A.insert(lo, hi), B.insert(lo, hi) or C.insert(lo, hi)
CharsInsertRange ==
  /\ gen.pc = "build" /\ gen.n < MaxInsert
  /\ \E r \in {"A", "B", "C"}, g \in CharRanges :
       gen' = [gen EXCEPT ![r] = Chars_insert_range(gen[r], g[1], g[2]), !.n = gen.n + 1]
  /\ UNCHANGED <<op, lex, lin, run, bi, io, pd, codec>>

\* A.flip256()
CharsFlip256 ==
  /\ gen.pc = "build"
  /\ gen' = [gen EXCEPT !.pc = "done", !.A = Chars_flip256(gen.A),
                        !.last = [fn |-> "flip256", before |-> gen.A]]
  /\ UNCHANGED <<op, lex, lin, run, bi, io, pd, codec>>

\* (A | B) & C and (A & C) | (B & C) are computed
CharsDistribute ==
  /\ gen.pc = "build"
  /\ gen' = [gen EXCEPT !.pc = "done",
                        !.last = [fn |-> "distribute",
                                  lhs |-> Chars_and(Chars_or(gen.A, gen.B), gen.C),
                                  rhs |-> Chars_or(Chars_and(gen.A, gen.C),
                                                   Chars_and(gen.B, gen.C))]]
  /\ UNCHANGED <<op, lex, lin, run, bi, io, pd, codec>>

CharsNext == CharsInsert \/ CharsInsertRange \/ CharsFlip256 \/ CharsDistribute

\* C16: flip256 complements exactly bits 0..255 of the set and leaves the
\* meta bits 256..319 unchanged.
Thm_C16 ==
  gen.last.fn = "flip256" =>
    \A c \in 0..319 :
      /\ BitAt(gen.A, c) <=>
           IF c < 256 THEN ~BitAt(gen.last.before, c) ELSE BitAt(gen.last.before, c)
      /\ c \in {0, \h3F, \h40, \hFF, Meta_MIN, \h13F} =>
           (Chars_contains(gen.A, c) <=> BitAt(gen.A, c))

\* flip256 of a set holding 'A'..'Z' and the meta character DED
Wit_C16 ==
  /\ gen.last.fn = "flip256"
  /\ Chars_members(gen.last.before) = (\h41..\h5A) \cup {Meta_DED}
  /\ Chars_members(gen.A) = ((0..255) \ (\h41..\h5A)) \cup {Meta_DED}

\* C17: (A | B) & C equals (A & C) | (B & C), over all 320 bits.
Thm_C17 ==
  gen.last.fn = "distribute" =>
    /\ Chars_eq(gen.last.lhs, gen.last.rhs)
    /\ Chars_members(gen.last.lhs)
         = (Chars_members(gen.A) \cup Chars_members(gen.B)) \cap Chars_members(gen.C)

\* A holds the 8-bit character 0xFF, B the meta character DED, C the range
\* 0xFE..DED:
\* both sides are {0xFF, DED}
Wit_C17 ==
  /\ gen.last.fn = "distribute"
  /\ Chars_members(gen.A) = {\hFF}
  /\ Chars_members(gen.B) = {Meta_DED}
  /\ Chars_members(gen.C) = \hFE..Meta_DED
  /\ Chars_members(gen.last.lhs) = {\hFF, Meta_DED}

\* ---- FSM_Generator::Position ----
\* A Position is the 64-bit value k: bits 0..31 the location, 32..47 the
\* iteration counter, 48..50 reserved, 51..55 the flags, 56..63 lazy.

\* the bit numbers of NEGATE, TICKED, GREEDY, ANCHOR, ACCEPT
FlagBit == [negate |-> 51, ticked |-> 52, greedy |-> 53, anchor |-> 54, accept |-> 55]

Flags == DOMAIN FlagBit

\* negate(b), ticked(b), greedy(b), anchor(b), accept(b):
\* b ? Position(k | F) : Position(k & ~F)
Position_flag(k, f, b) ==
  IF b THEN W64_or(k, W64_bit(FlagBit[f]))
  ELSE W64_and(k, W64_not(W64_bit(FlagBit[f])))

\* negate(), ticked(), greedy(), anchor(), accept(): (k & F) != 0
Position_is(k, f) == W64_and(k, W64_bit(FlagBit[f])) # W64_zero

\* a plausible slip: the old lazy byte is not masked out
Position_lazy_or(k, l) == W64_or(k, <<l * 256, 0, 0, 0>>)

\* lazy(l): (k & 0x00FFFFFFFFFFFFFF) | (value_type)l << 56
Position_lazy(k, l) ==
  W64_or(W64_and(k, <<\h00FF, \hFFFF, \hFFFF, \hFFFF>>), <<l * 256, 0, 0, 0>>)

\* lazy(): static_cast<Lazy>(k >> 56)
Position_lazy_of(k) == k[1] \div 256

\* iter(i): k + ((value_type)i << 32)
Position_iter(k, i) == W64_add(k, <<0, i, 0, 0>>)

\* iter(): (k >> 32) & 0xFFFF
Position_iter_of(k) == k[2]

\* loc(): static_cast<Location>(k), the low 32 bits
Position_loc(k) == <<k[3], k[4]>>

\* the most iter() calls made on one position
MaxIterCalls == 2

\* Position(k) from a location, or the default Position() = NPOS
PosInit ==
  /\ \E k \in { W64_zero, <<0, 0, 0, 5>>, <<0, 0, \hFFFF, \hFFFF>>, W64_ones } :
       gen = [pc |-> "pos", p |-> k, before |-> k, iters |-> 0, last |-> [fn |-> "new"]]
  /\ op = NoOp /\ NoLexer /\ NoInput /\ pd = Unused /\ codec = Unused

\* p = p.iter(i)
PosIter ==
  /\ gen.pc = "pos" /\ gen.iters < MaxIterCalls
  /\ \E i \in {1, \hFFFF} :
       gen' = [gen EXCEPT !.p = Position_iter(gen.p, i), !.before = gen.p,
                          !.iters = gen.iters + 1, !.last = [fn |-> "iter", i |-> i]]
  /\ UNCHANGED <<op, lex, lin, run, bi, io, pd, codec>>

\* p = p.negate(b), p.ticked(b), p.greedy(b), p.anchor(b) or p.accept(b)
PosFlag ==
  /\ gen.pc = "pos"
  /\ \E f \in Flags, b \in BOOLEAN :
       gen' = [gen EXCEPT !.p = Position_flag(gen.p, f, b), !.before = gen.p,
                          !.last = [fn |-> "flag", f |-> f, b |-> b]]
  /\ UNCHANGED <<op, lex, lin, run, bi, io, pd, codec>>

\* p = p.lazy(l)
PosLazy ==
  /\ gen.pc = "pos"
  /\ \E l \in {0, 1, \hFF} :
       gen' = [gen EXCEPT !.p = Position_lazy(gen.p, l), !.before = gen.p,
                          !.last = [fn |-> "lazy", l |-> l]]
  /\ UNCHANGED <<op, lex, lin, run, bi, io, pd, codec>>

PosNext == PosIter \/ PosFlag \/ PosLazy

\* bit j (48 <= j < 64) of k, read from the high limb
HighBit(k, j) == (k[1] \div Pow2(j - 48)) % 2

\* C18: each flag setter and the lazy setter changes only its own field:
\* after p.F(b) the getter F() returns b, after p.lazy(l) lazy() returns l,
\* and location, iteration counter and all other flag / lazy fields are as
\* in p; positions that differ in a flag compare unequal.
Thm_C18 ==
  LET p == gen.p
      q == gen.before
  IN  /\ gen.last.fn = "flag" =>
           /\ Position_is(p, gen.last.f) = gen.last.b
           /\ HighBit(p, FlagBit[gen.last.f]) = IF gen.last.b THEN 1 ELSE 0
           /\ \A g \in Flags \ {gen.last.f} : Position_is(p, g) = Position_is(q, g)
           /\ \A j \in 48..63 : j # FlagBit[gen.last.f] => HighBit(p, j) = HighBit(q, j)
           /\ Position_lazy_of(p) = Position_lazy_of(q)
           /\ Position_iter_of(p) = Position_iter_of(q)
           /\ Position_loc(p) = Position_loc(q)
           /\ <<p[2], p[3], p[4]>> = <<q[2], q[3], q[4]>>
           /\ Position_flag(q, gen.last.f, TRUE) # Position_flag(q, gen.last.f, FALSE)
      /\ gen.last.fn = "lazy" =>
           /\ Position_lazy_of(p) = gen.last.l
           /\ \A g \in Flags : Position_is(p, g) = Position_is(q, g)
           /\ \A j \in 48..55 : HighBit(p, j) = HighBit(q, j)
           /\ Position_iter_of(p) = Position_iter_of(q)
           /\ Position_loc(p) = Position_loc(q)
           /\ <<p[2], p[3], p[4]>> = <<q[2], q[3], q[4]>>
      /\ (gen.pc = "pos" /\ \E g \in Flags : Position_is(p, g) # Position_is(q, g)) => p # q

\* lazy(1) on a position that had lazy 0xFF, a nonzero iteration counter and
\* some flags set
Wit_C18 ==
  /\ gen.last.fn = "lazy" /\ gen.last.l = 1
  /\ Position_lazy_of(gen.before) = \hFF /\ Position_lazy_of(gen.p) = 1
  /\ Position_iter_of(gen.p) = 1 /\ Position_is(gen.p, "anchor") /\ ~Position_is(gen.p, "negate")

\* anchor(false) on the default position NPOS
Wit_C18_flag ==
  /\ gen.last.fn = "flag" /\ gen.last.f = "anchor" /\ ~gen.last.b
  /\ gen.before = W64_ones /\ gen.p = <<\hFFBF, \hFFFF, \hFFFF, \hFFFF>>

\* C33: for any position p and any i <= 65535, p.iter(i) has an iteration
\* counter (bits 32..47) that reads back as i, and location, flags and lazy
\* index equal to those of p; the counter never spills into the reserved or
\* flag bits (bits 48..63 are those of p).
Orig_C33 ==
  gen.last.fn = "iter" =>
     /\ Position_iter_of(gen.p) = gen.last.i
     /\ Position_loc(gen.p) = Position_loc(gen.before)
     /\ \A g \in Flags : Position_is(gen.p, g) = Position_is(gen.before, g)
     /\ Position_lazy_of(gen.p) = Position_lazy_of(gen.before)
     /\ \A j \in 48..63 : HighBit(gen.p, j) = HighBit(gen.before, j)

\* what holds of the code: iter(i) adds i to the counter of p; the location
\* is that of p, and bits 48..63 are those of p unless the sum passes 65535,
\* when the carry is added to them
IterAdds ==
  gen.last.fn = "iter" =>
     LET sum == Position_iter_of(gen.before) + gen.last.i
     IN  /\ Position_iter_of(gen.p) = sum % \h10000
         /\ Position_loc(gen.p) = Position_loc(gen.before)
         /\ gen.p[1] = (gen.before[1] + (sum \div \h10000)) % \h10000

\* ---- FSM_Generator::is_modified / update_modified ----
\* The Map `modifiers` is a function from the keys present to Locations; a
\* Locations (ORanges<Location>) is held as the set of locations it covers.

\* reversecase(c): static_cast<unsigned char>(c ^ 0x20)
reversecase(c) == BitXor(c, \h20) % 256

\* Locations(from, to): the range of locations from .. to, both included;
\* operator-=, operator+= and find() of ORanges are difference, union and
\* membership of the sets covered
Locations(from, to) == from..to

\* modifiers[mode]: the entry, created empty when absent
MapAt(modifiers, mode) == IF mode \in DOMAIN modifiers THEN modifiers[mode] ELSE {}

\* the map with modifiers[mode] set to v
MapPut(modifiers, mode, v) ==
  [k \in DOMAIN modifiers \cup {mode} |-> IF k = mode THEN v ELSE modifiers[k]]

\* is_modified(mode, modifiers, loc)
is_modified(mode, modifiers, loc) ==
  mode \in DOMAIN modifiers /\ loc \in modifiers[mode]

\* a plausible slip: the range is inserted whatever the opposite mode marks
update_modified_plain(mode, modifiers, from, to) ==
  MapPut(modifiers, mode, MapAt(modifiers, mode) \cup Locations(from, to))

\* update_modified(mode, modifiers, from, to)
update_modified(mode, modifiers, from, to) ==
  IF reversecase(mode) \in DOMAIN modifiers
  THEN LET modified == Locations(from, to) \ modifiers[reversecase(mode)]
       IN  MapPut(modifiers, mode, MapAt(modifiers, mode) \cup modified)
  ELSE MapPut(modifiers, mode, MapAt(modifiers, mode) \cup Locations(from, to))

\* the largest location of the regex, and the most update_modified calls
MaxLoc == 2

MaxUpdates == 3

\* the modes used: i, I, s, S (0x69, 0x49, 0x73, 0x53)
Modes == {\h69, \h49, \h73, \h53}

\* the ranges marked: one or two locations
ModRanges == {r \in (0..MaxLoc) \X (0..MaxLoc) : r[1] <= r[2] /\ r[2] <= r[1] + 1}

\* generate(): Map modifiers starts empty
ModInit ==
  /\ gen = [pc |-> "parse", modifiers |-> <<>>, before |-> <<>>, n |-> 0,
            last |-> [fn |-> "none"]]
  /\ op = NoOp /\ NoLexer /\ NoInput /\ pd = Unused /\ codec = Unused

\* the parser calls update_modified(mode, modifiers, from, to)
UpdateModified ==
  /\ gen.pc = "parse" /\ gen.n < MaxUpdates
  /\ \E mode \in Modes, r \in ModRanges :
       gen' = [gen EXCEPT !.modifiers = update_modified(mode, gen.modifiers, r[1], r[2]),
                          !.before = gen.modifiers,
                          !.n = gen.n + 1,
                          !.last = [fn |-> "update", mode |-> mode,
                                    from |-> r[1], to |-> r[2]]]
  /\ UNCHANGED <<op, lex, lin, run, bi, io, pd, codec>>

\* the opposite-case letter, from the table of the letters
Opposite(mode) ==
  CASE mode = \h69 -> \h49 [] mode = \h49 -> \h69
    [] mode = \h73 -> \h53 [] mode = \h53 -> \h73

\* C19: after any sequence of update_modified calls no location is marked
\* both with a modifier and with its opposite-case counterpart;
\* update_modified(mode, from, to) marks with mode exactly the locations of
\* the range not already marked with the opposite-case mode and never
\* unmarks a location; is_modified is true exactly for the locations marked.
Thm_C19 ==
  /\ \A mode \in Modes, loc \in 0..MaxLoc :
       ~(is_modified(mode, gen.modifiers, loc)
         /\ is_modified(Opposite(mode), gen.modifiers, loc))
  /\ gen.last.fn = "update" =>
       \A m \in Modes, loc \in 0..MaxLoc :
         is_modified(m, gen.modifiers, loc) <=>
           \/ is_modified(m, gen.before, loc)
           \/ /\ m = gen.last.mode
              /\ loc \in gen.last.from..gen.last.to
              /\ ~is_modified(Opposite(m), gen.before, loc)

\* i was marked on 0..1, then I is asked for 1..2: only 2 is marked with I
Wit_C19 ==
  /\ gen.last.fn = "update" /\ gen.last.mode = \h49
  /\ gen.last.from = 1 /\ gen.last.to = 2
  /\ \h69 \in DOMAIN gen.before /\ gen.before[\h69] = {0, 1}
  /\ gen.modifiers[\h49] = {2} /\ gen.modifiers[\h69] = {0, 1}

(***************************************************************************)
(* to_utf8 / from_utf8                                                     *)
(***************************************************************************)

\* a plausible slip: the lead byte of a four-byte sequence is masked with
\* two bits instead of three
Lead4_slip(b) == BitAnd(b, \h03) * \h40000

\* (c[0] &= 0b00000111) <<= 18
Lead4(b) == BitAnd(b, \h07) * \h40000

\* from_utf8(s, &r): the value returned and how far r is beyond s; s holds
\* the bytes at s[0], s[1], .. at places 1, 2, ..
from_utf8(s) ==
  LET c0 == s[1] IN
  IF c0 < \h80 THEN [c |-> c0, adv |-> 1]
  ELSE IF c0 >= \hF0
    THEN [c |-> BitOr(BitOr(Lead4(c0), BitAnd(s[2], \h3F) * \h1000),
                      BitOr(BitAnd(s[3], \h3F) * \h40, BitAnd(s[4], \h3F))),
          adv |-> 4]
  ELSE IF c0 >= \hE0
    THEN [c |-> BitOr(BitOr(BitAnd(c0, \h0F) * \h1000, BitAnd(s[2], \h3F) * \h40),
                      BitAnd(s[3], \h3F)),
          adv |-> 3]
  ELSE IF c0 >= \hC0
    THEN [c |-> BitOr(BitAnd(c0, \h1F) * \h40, BitAnd(s[2], \h3F)), adv |-> 2]
  ELSE [c |-> c0, adv |-> 0]

\* the code points tried: every single bit, every all-ones value, and the
\* neighbourhood of every length boundary, of the surrogates and of the end
CodecPoints ==
  { c \in { Pow2(k) : k \in 0..20 } \cup { Pow2(k) - 1 : k \in 0..20 }
          \cup Near(\h80) \cup Near(\h0800) \cup Near(\hD800) \cup Near(\hE000)
          \cup Near(\h010000) \cup Near(\h100000) \cup Near(UNICODE_MAX)
          \cup (0..Span) : c >= 0 /\ c <= UNICODE_MAX }

\* what the buffer holds behind the bytes written
CodecTails == { <<>>, <<\h41>>, <<\h80, \hBF, \hBF>> }

CodecInit ==
  /\ \E c \in CodecPoints, tail \in CodecTails :
       codec = [pc |-> "start", c |-> c, tail |-> tail, buf |-> <<>>, n |-> 0,
                got |-> [c |-> 0, adv |-> 0]]
  /\ op = NoOp /\ NoLexer /\ NoInput /\ pd = Unused /\ gen = Unused

\* n = to_utf8(c, buf)
CodecEncode ==
  /\ codec.pc = "start"
  /\ LET w == to_utf8(codec.c) IN
     codec' = [codec EXCEPT !.pc = "encoded", !.buf = w \o codec.tail, !.n = Len(w)]
  /\ UNCHANGED <<op, lex, lin, run, bi, io, pd, gen>>

\* c2 = from_utf8(buf, &r)
CodecDecode ==
  /\ codec.pc = "encoded"
  /\ codec' = [codec EXCEPT !.pc = "decoded", !.got = from_utf8(codec.buf)]
  /\ UNCHANGED <<op, lex, lin, run, bi, io, pd, gen>>

CodecNext == CodecEncode \/ CodecDecode

\* C20: for every code point c <= 0x10FFFF, to_utf8 writes between 1 and 4
\* bytes, and from_utf8 applied to those bytes returns c and advances by
\* exactly the number of bytes written.
Thm_C20 ==
  /\ codec.pc \in {"encoded", "decoded"} =>
       /\ codec.c <= UNICODE_MAX
       /\ codec.n \in 1..4
       /\ Len(codec.buf) = codec.n + Len(codec.tail)
       /\ \A i \in 1..codec.n : codec.buf[i] \in 0..255
  /\ codec.pc = "decoded" =>
       /\ codec.got.c = codec.c
       /\ codec.got.adv = codec.n

\* the largest code point, written as F4 8F BF BF and read back, with more
\* continuation bytes behind it in the buffer
Wit_C20 ==
  /\ codec.pc = "decoded" /\ codec.c = UNICODE_MAX
  /\ codec.buf = <<\hF4, \h8F, \hBF, \hBF, \h80, \hBF, \hBF>>
  /\ codec.got = [c |-> UNICODE_MAX, adv |-> 4]

\* a surrogate half is written as three bytes and read back
Wit_C20_surrogate ==
  /\ codec.pc = "decoded" /\ codec.c = \hD800 /\ codec.n = 3 /\ codec.got.c = \hD800

\* ---- AbstractLexer::u32str / u32size ----

RECURSIVE u32cs_loop(_, _, _, _)
\* the loop of u32cs(s, n): s holds the bytes of the string followed by the
\* terminating NUL of c_str(); pos is how far s has moved, u32s the result
\* so far (length_counter equals pos: it grows by s2 - s as s does)
u32cs_loop(s, n, pos, u32s) ==
  IF pos <= n
  THEN Bind(from_utf8(Drop(s, pos)),
            LAMBDA g : u32cs_loop(s, n, pos + g.adv, Append(u32s, g.c)))
  ELSE u32s

\* u32cs(const std::string& s): u32cs(s.c_str(), s.size())
u32cs(str) == u32cs_loop(str \o <<0>>, Len(str), 0, <<>>)

RECURSIVE u32size(_)
\* AbstractLexer::u32size(): the bytes b of str_ with (b & 0xC0) != 0x80
u32size(str) ==
  IF str = <<>> THEN 0
  ELSE (IF BitAnd(str[1], \hC0) # \h80 THEN 1 ELSE 0) + u32size(Tail(str))

\* the most code points in a matched text
MaxText == 2

\* the code points of the matched texts: one of each encoded length, both
\* ends of the two-byte range, and NUL
TextPoints == {\h00, \h41, \h80, \h07FF, \h20AC, \h01F600, UNICODE_MAX}

RECURSIVE Utf8Of(_)
\* the bytes of a text of code points
Utf8Of(t) == IF t = <<>> THEN <<>> ELSE to_utf8(t[1]) \o Utf8Of(Tail(t))

\* a lexer whose matched text str_ is the UTF-8 of a short text
TextInit ==
  /\ \E k \in 0..MaxText : \E t \in [1..k -> TextPoints] :
       codec = [pc |-> "matched", text |-> t, str_ |-> Utf8Of(t),
                u32 |-> <<>>, size |-> 0]
  /\ op = NoOp /\ NoLexer /\ NoInput /\ pd = Unused /\ gen = Unused

\* the caller asks for u32size()
U32size ==
  /\ codec.pc = "matched"
  /\ codec' = [codec EXCEPT !.pc = "sized", !.size = u32size(codec.str_)]
  /\ UNCHANGED <<op, lex, lin, run, bi, io, pd, gen>>

\* the caller asks for u32str()
U32str ==
  /\ codec.pc = "sized"
  /\ codec' = [codec EXCEPT !.pc = "u32", !.u32 = u32cs(codec.str_)]
  /\ UNCHANGED <<op, lex, lin, run, bi, io, pd, gen>>

TextNext == U32size \/ U32str

\* C21: u32str() returns exactly the code points of the matched text,
\* nothing more: its length equals u32size(), the number of
\* non-continuation bytes in str().
Orig_C21 ==
  codec.pc = "u32" =>
    /\ codec.u32 = codec.text
    /\ Len(codec.u32) = codec.size

\* what the code does: u32size() counts the code points, and u32str() is
\* the code points followed by one U+0000 decoded from the terminator
U32strHasNul ==
  /\ codec.pc \in {"sized", "u32"} => codec.size = Len(codec.text)
  /\ codec.pc = "u32" => codec.u32 = Append(codec.text, 0)

(***************************************************************************)
(* Pattern: ownership of the opcode table                                  *)
(* A pointer to a table is 0 (nullptr), StaticTable (a table supplied by   *)
(* the caller) or the number 1.. of a heap block; a heap block is          *)
(* "unused", "live" or "freed" and is never handed out twice, so that a    *)
(* stale pointer stays recognisable.                                       *)
(***************************************************************************)

\* the most heap tables allocated in one run, and the Pattern objects
MaxTables == 3

Slots == {1, 2, 3}

StaticTable == 0 - 1

\* Pattern(): opc_(nullptr), nop_(0), fsm_(nullptr)
Pattern_new == [opc_ |-> 0, nop_ |-> 0, fsm_ |-> 0, rex_ |-> 0]

\* the pattern owns a heap table: nop_ > 0 && opc_ != nullptr
Pattern_owns(q) == q.nop_ > 0 /\ q.opc_ # 0

\* new Opcode[n] filled with the words of table `from`: the block handed out
NewTable(heap) == CHOOSE t \in 1..MaxTables : heap[t].st = "unused" /\
                    \A u \in 1..MaxTables : heap[u].st = "unused" => t <= u

\* delete[] t: the heap afterwards, and what went wrong if anything
delete_arr(hp, t) ==
  IF t \in 1..MaxTables /\ hp.heap[t].st = "live"
  THEN [hp EXCEPT !.heap[t].st = "freed"]
  ELSE [hp EXCEPT !.bad = hp.bad \cup {IF t = StaticTable THEN "freed_static"
                                       ELSE "double_free"}]

\* clear(): delete[] opc_ when owned, then opc_ = nullptr, nop_ = 0,
\* fsm_ = nullptr; returns the object and the heap
Pattern_clear(q, hp) ==
  [ q  |-> [q EXCEPT !.rex_ = 0, !.opc_ = 0, !.nop_ = 0, !.fsm_ = 0],
    hp |-> IF Pattern_owns(q) THEN delete_arr(hp, q.opc_) ELSE hp ]

\* the body shared by the copy constructor and copy assignment: dst has
\* opc_ = nullptr, nop_ = 0, fsm_ = nullptr on entry
Pattern_copy_from(dst, src, hp) ==
  IF Pattern_owns(src)
  THEN LET t == NewTable(hp.heap) IN
       [ q  |-> [dst EXCEPT !.rex_ = src.rex_, !.nop_ = src.nop_, !.opc_ = t],
         hp |-> [hp EXCEPT !.heap[t] = [st |-> "live", code |-> hp.heap[src.opc_].code]] ]
  ELSE [ q  |-> [dst EXCEPT !.rex_ = src.rex_, !.fsm_ = src.fsm_], hp |-> hp ]

\* a plausible slip: the source keeps its pointer after a move
Pattern_move_keep(dst, src) ==
  IF Pattern_owns(src)
  THEN [ q |-> [dst EXCEPT !.rex_ = src.rex_, !.nop_ = src.nop_, !.opc_ = src.opc_],
         src |-> [src EXCEPT !.rex_ = 0] ]
  ELSE [ q |-> [dst EXCEPT !.rex_ = src.rex_, !.fsm_ = src.fsm_],
         src |-> [src EXCEPT !.rex_ = 0, !.fsm_ = 0] ]

\* the body shared by the move constructor and move assignment: dst has
\* opc_ = nullptr, nop_ = 0, fsm_ = nullptr on entry; returns dst and src
Pattern_move_from(dst, src) ==
  IF Pattern_owns(src)
  THEN [ q |-> [dst EXCEPT !.rex_ = src.rex_, !.nop_ = src.nop_, !.opc_ = src.opc_],
         src |-> [src EXCEPT !.rex_ = 0, !.nop_ = 0, !.opc_ = 0] ]
  ELSE [ q |-> [dst EXCEPT !.rex_ = src.rex_, !.fsm_ = src.fsm_],
         src |-> [src EXCEPT !.rex_ = 0, !.fsm_ = 0] ]

\* the kinds of pattern a program starts with: compiled from a regex (owns
\* table t of 3 words), given a caller's table, given FSM code, or unset
StartPattern(kind, t) ==
  CASE kind = "compiled" -> [opc_ |-> t, nop_ |-> 3, fsm_ |-> 0, rex_ |-> t]
    [] kind = "table"    -> [opc_ |-> StaticTable, nop_ |-> 0, fsm_ |-> 0, rex_ |-> 0]
    [] kind = "fsm"      -> [opc_ |-> 0, nop_ |-> 0, fsm_ |-> 1, rex_ |-> 0]
    [] kind = "unset"    -> Pattern_new

PatternKinds == {"compiled", "table", "fsm", "unset"}

NoObject == [gone |-> TRUE]

\* two patterns exist, a third object is not constructed yet
OwnInit ==
  /\ \E k1 \in PatternKinds, k2 \in PatternKinds :
       pd = [pc |-> "own",
             pat |-> [i \in Slots |-> IF i = 1 THEN StartPattern(k1, 1)
                                      ELSE IF i = 2 THEN StartPattern(k2, 2)
                                      ELSE NoObject],
             hp |-> [heap |-> [t \in 1..MaxTables |->
                                 IF (t = 1 /\ k1 = "compiled") \/ (t = 2 /\ k2 = "compiled")
                                 THEN [st |-> "live", code |-> t]
                                 ELSE IF t <= 2 THEN [st |-> "freed", code |-> 0]
                                 ELSE [st |-> "unused", code |-> 0]],
                     bad |-> {}],
             last |-> [fn |-> "none"]]
  /\ op = NoOp /\ NoLexer /\ NoInput /\ gen = Unused /\ codec = Unused

Exists(i) == pd.pat[i] # NoObject

CanAllocate == \E t \in 1..MaxTables : pd.hp.heap[t].st = "unused"

\* Pattern i(j): copy constructor
CopyConstruct ==
  /\ pd.pc = "own"
  /\ \E i \in Slots, j \in Slots :
       /\ ~Exists(i) /\ Exists(j)
       /\ Pattern_owns(pd.pat[j]) => CanAllocate
       /\ LET r == Pattern_copy_from(Pattern_new, pd.pat[j], pd.hp) IN
          pd' = [pd EXCEPT !.pat[i] = r.q, !.hp = r.hp,
                           !.last = [fn |-> "copy", dst |-> i, src |-> j,
                                     was |-> pd.pat[j]]]
  /\ UNCHANGED <<op, lex, lin, run, bi, io, gen, codec>>

\* Pattern i(std::move(j)): move constructor
MoveConstruct ==
  /\ pd.pc = "own"
  /\ \E i \in Slots, j \in Slots :
       /\ ~Exists(i) /\ Exists(j)
       /\ LET r == Pattern_move_from(Pattern_new, pd.pat[j]) IN
          pd' = [pd EXCEPT !.pat = [pd.pat EXCEPT ![j] = r.src, ![i] = r.q],
                           !.last = [fn |-> "move", dst |-> i, src |-> j,
                                     was |-> pd.pat[j]]]
  /\ UNCHANGED <<op, lex, lin, run, bi, io, gen, codec>>

\* i = j: copy assignment, i = j the same object included; clear() runs
\* first, then the source is read (after clear(), when it is the same object)
CopyAssign ==
  /\ pd.pc = "own"
  /\ \E i \in Slots, j \in Slots :
       /\ Exists(i) /\ Exists(j)
       /\ LET c   == Pattern_clear(pd.pat[i], pd.hp)
              src == IF i = j THEN c.q ELSE pd.pat[j]
          IN  /\ Pattern_owns(src) => \E t \in 1..MaxTables : c.hp.heap[t].st = "unused"
              /\ LET r == Pattern_copy_from(c.q, src, c.hp) IN
                 pd' = [pd EXCEPT !.pat[i] = r.q, !.hp = r.hp,
                                  !.last = [fn |-> "copy", dst |-> i, src |-> j,
                                            was |-> pd.pat[j]]]
  /\ UNCHANGED <<op, lex, lin, run, bi, io, gen, codec>>

\* i = std::move(j): move assignment, the same object included; the own
\* table is deleted first
MoveAssign ==
  /\ pd.pc = "own"
  /\ \E i \in Slots, j \in Slots :
       /\ Exists(i) /\ Exists(j)
       /\ LET c   == Pattern_clear(pd.pat[i], pd.hp)
              d   == [c.q EXCEPT !.rex_ = pd.pat[i].rex_]
              src == IF i = j THEN d ELSE pd.pat[j]
              r   == Pattern_move_from(d, src)
          IN  pd' = [pd EXCEPT !.pat = [pd.pat EXCEPT ![j] = r.src, ![i] = r.q],
                               !.hp = c.hp,
                               !.last = [fn |-> "move", dst |-> i, src |-> j,
                                         was |-> pd.pat[j]]]
  /\ UNCHANGED <<op, lex, lin, run, bi, io, gen, codec>>

\* i.clear()
ClearPattern ==
  /\ pd.pc = "own"
  /\ \E i \in Slots :
       /\ Exists(i)
       /\ LET c == Pattern_clear(pd.pat[i], pd.hp) IN
          pd' = [pd EXCEPT !.pat[i] = c.q, !.hp = c.hp,
                           !.last = [fn |-> "clear", dst |-> i, src |-> i,
                                     was |-> pd.pat[i]]]
  /\ UNCHANGED <<op, lex, lin, run, bi, io, gen, codec>>

\* ~Pattern(): clear(), and the object is gone
DestroyPattern ==
  /\ pd.pc = "own"
  /\ \E i \in Slots :
       /\ Exists(i)
       /\ LET c == Pattern_clear(pd.pat[i], pd.hp) IN
          pd' = [pd EXCEPT !.pat[i] = NoObject, !.hp = c.hp,
                           !.last = [fn |-> "destroy", dst |-> i, src |-> i,
                                     was |-> pd.pat[i]]]
  /\ UNCHANGED <<op, lex, lin, run, bi, io, gen, codec>>

OwnNext ==
  \/ CopyConstruct \/ MoveConstruct \/ CopyAssign \/ MoveAssign
  \/ ClearPattern \/ DestroyPattern

\* the objects that hold table t as their own
Owners(t) == {i \in Slots : Exists(i) /\ Pattern_owns(pd.pat[i]) /\ pd.pat[i].opc_ = t}

Wit_C22_self ==
  /\ pd.last.fn = "copy" /\ pd.last.dst = pd.last.src /\ Pattern_owns(pd.last.was)
  /\ ~Pattern_owns(pd.pat[pd.last.dst]) /\ pd.hp.heap[pd.last.was.opc_].st = "freed"

\* Pattern::empty(): opc_ == nullptr && fsm_ == nullptr
Pattern_empty(q) == q.opc_ = 0 /\ q.fsm_ = 0

\* the opcode words q refers to: those of the caller's table, or of its block
Pattern_words(q) ==
  IF q.opc_ = StaticTable THEN StaticTable ELSE pd.hp.heap[q.opc_].code

\* C40: copying or moving a non-empty Pattern yields a non-empty Pattern
\* that refers to equal opcode words or the same FSM function, also when the
\* original was constructed over a caller-supplied opcode table, and
\* assigning a pattern to itself leaves it unchanged.
Orig_C40 ==
  (pd.pc = "own" /\ pd.last.fn \in {"copy", "move"} /\ ~Pattern_empty(pd.last.was)) =>
     LET d == pd.pat[pd.last.dst]
         w == pd.last.was
     IN  /\ ~Pattern_empty(d)
         /\ w.fsm_ # 0 => d.fsm_ = w.fsm_
         /\ w.opc_ # 0 => (d.opc_ # 0 /\ Pattern_words(d) = Pattern_words(w))
         /\ pd.last.dst = pd.last.src => d = w

\* what holds of the code: a pattern that owns its table or has FSM code is
\* copied and moved to another object as the claim says; the copy or move
\* of a pattern over a caller's table is unset, and so is every pattern
\* after it was assigned to itself
CopyOwnedOrFsm ==
  (pd.pc = "own" /\ pd.last.fn \in {"copy", "move"} /\ ~Pattern_empty(pd.last.was)) =>
     LET d == pd.pat[pd.last.dst]
         w == pd.last.was
     IN  IF pd.last.dst = pd.last.src \/ w.opc_ = StaticTable
         THEN Pattern_empty(d)
         ELSE /\ ~Pattern_empty(d)
              /\ w.fsm_ # 0 => d.fsm_ = w.fsm_
              /\ w.opc_ # 0 => (d.opc_ # 0 /\ Pattern_words(d) = Pattern_words(w))

(***************************************************************************)
(* FSM_Generator::Tree and FSM_Generator::DFA: the block arenas            *)
(* A node is [b, i]: slot i of block b; blocks are numbered 1.. in the     *)
(* order of their allocation and block 0 stands for no block at all.       *)
(***************************************************************************)

Tree_ALLOC_SIZE == 64

DFA_ALLOC_SIZE == 256

\* the most nodes asked for after a clear(), and the most clear() calls
MaxAfter == 2

MaxClears == 1

NoNode == [b |-> 0, i |-> 0]

\* Tree(): tree(nullptr), next(ALLOC_SIZE); DFA(): next(ALLOC_SIZE)
Arena_new(size) ==
  [size |-> size, list |-> <<>>, next |-> size, made |-> 0, freed |-> {},
   tree |-> NoNode]

\* the blocks list.back() can stand for: the last block of the list, and on
\* an empty list (undefined behaviour) no block or a block freed before
Arena_back(a) ==
  IF a.list # <<>> THEN {a.list[Len(a.list)]} ELSE {0} \cup a.freed

\* leaf() and state(): a new block when next >= ALLOC_SIZE, then
\* &list.back()[next++]; returns the arena and the node, with list.back()
\* standing for block `back`
Arena_leaf(a, back) ==
  IF a.next >= a.size
  THEN [ a |-> [a EXCEPT !.list = Append(a.list, a.made + 1), !.made = a.made + 1,
                         !.next = 1],
         node |-> [b |-> a.made + 1, i |-> 0] ]
  ELSE [ a |-> [a EXCEPT !.next = a.next + 1],
         node |-> [b |-> back, i |-> a.next] ]

\* clear(): delete[] every block, list.clear(); next and tree are left alone
Arena_clear(a) ==
  [a EXCEPT !.list = <<>>,
            !.freed = a.freed \cup {a.list[k] : k \in 1..Len(a.list)}]

\* allocated(a, n): node n lies in a block of the list
Arena_allocated(a, n) ==
  /\ \E k \in 1..Len(a.list) : a.list[k] = n.b
  /\ n.i \in 0..(a.size - 1)

ArenaInit ==
  /\ \E size \in {Tree_ALLOC_SIZE, DFA_ALLOC_SIZE} :
       gen = [pc |-> "arena", a |-> Arena_new(size), out |-> {}, clears |-> 0,
              after |-> 0, last |-> [fn |-> "none", node |-> NoNode]]
  /\ op = NoOp /\ NoLexer /\ NoInput /\ pd = Unused /\ codec = Unused

\* the node budget of a run: two nodes into a second block, and MaxAfter
\* nodes after a clear()
MayAsk ==
  /\ gen.pc = "arena"
  /\ IF gen.clears = 0 THEN gen.a.made < 2 \/ gen.a.next < 2
                       ELSE gen.after < MaxAfter

\* Tree::leaf(), Tree::edge() on a missing edge, DFA::state()
ArenaLeaf ==
  /\ MayAsk
  /\ \E back \in Arena_back(gen.a) :
       LET r == Arena_leaf(gen.a, back) IN
       gen' = [gen EXCEPT !.a = r.a, !.out = gen.out \cup {r.node},
                          !.after = IF gen.clears = 0 THEN 0 ELSE gen.after + 1,
                          !.last = [fn |-> "leaf", node |-> r.node]]
  /\ UNCHANGED <<op, lex, lin, run, bi, io, pd, codec>>

\* Tree::root(): tree != nullptr ? tree : (tree = leaf())
ArenaRoot ==
  /\ MayAsk
  /\ gen.a.size = Tree_ALLOC_SIZE
  /\ \E back \in Arena_back(gen.a) :
       LET r == IF gen.a.tree # NoNode
                THEN [a |-> gen.a, node |-> gen.a.tree]
                ELSE LET l == Arena_leaf(gen.a, back) IN
                     [a |-> [l.a EXCEPT !.tree = l.node], node |-> l.node]
       IN  gen' = [gen EXCEPT !.a = r.a, !.out = gen.out \cup {r.node},
                              !.after = IF gen.clears = 0 THEN 0 ELSE gen.after + 1,
                              !.last = [fn |-> "root", node |-> r.node]]
  /\ UNCHANGED <<op, lex, lin, run, bi, io, pd, codec>>

\* clear(), as generate() calls dfa_.clear() when it is done; the nodes
\* returned before are given up
ArenaClear ==
  /\ gen.pc = "arena" /\ gen.clears < MaxClears
  /\ gen' = [gen EXCEPT !.a = Arena_clear(gen.a), !.out = {},
                        !.clears = gen.clears + 1,
                        !.last = [fn |-> "clear", node |-> NoNode]]
  /\ UNCHANGED <<op, lex, lin, run, bi, io, pd, codec>>

ArenaNext == ArenaLeaf \/ ArenaRoot \/ ArenaClear

\* C23: every node returned by Tree::root/leaf/edge and DFA::state lies in a
\* block that is still allocated: blocks of 64 (Tree) and 256 (DFA) nodes
\* are added only when the last one is full, earlier nodes are never moved
\* or freed, clear() frees all blocks, and after clear() the arena can be
\* used again (a second generate() on the same object).
Orig_C23 ==
  /\ \A n \in gen.out : Arena_allocated(gen.a, n)
  /\ gen.a.made * gen.a.size >= Cardinality(gen.out)
  /\ gen.last.fn = "clear" => gen.a.list = <<>>

\* what holds of the code: up to the first clear() every node returned lies
\* in an allocated block, a block is added exactly when the last one is
\* full, and clear() frees every block
ArenaUntilClear ==
  /\ gen.clears = 0 =>
       /\ \A n \in gen.out : Arena_allocated(gen.a, n)
       /\ gen.a.freed = {}
       /\ gen.a.made = (Cardinality(gen.out) + gen.a.size - 1) \div gen.a.size
  /\ gen.last.fn = "clear" =>
       gen.a.list = <<>> /\ gen.a.freed = 1..gen.a.made

\* after a clear() that followed a partly filled block, the next node is
\* taken from list.back() of an empty list
ArenaAfterClear ==
  (gen.clears > 0 /\ gen.last.fn = "leaf" /\ gen.a.made > 0 /\ gen.a.list = <<>>) =>
    ~Arena_allocated(gen.a, gen.last.node)

(***************************************************************************)
(* Lexers that run the FSM function of a compiled pattern: two lexers with *)
(* the same pattern, and AbstractLexer::split                              *)
(* The FSM function is generated code; it is modelled after the matcher    *)
(* contract for the pattern of one space: read a byte, take accept 1 when  *)
(* it is a space, halt otherwise.  A lexer here is a record of its own     *)
(* str_, cap_, got_, input `in` and the place `at` its FSM function is at. *)
(***************************************************************************)

\* the most scan() calls of one lexer, and the longest input
MaxPairScans == 3

MaxPairText == 2

SPACE == \h20

PairItems == {SPACE, \h61}

PairTexts == UNION {[1..k -> PairItems] : k \in 0..MaxPairText}

\* Pattern(FSM fsm): fsm_(fsm), opc_(nullptr)
Pattern_fsm == [fsm_ |-> 1, opc_ |-> 0]

Lexer_new(text) ==
  [at |-> "idle", str_ |-> <<>>, cap_ |-> 0, got_ |-> 0, A |-> FALSE,
   in |-> BufferedInput("SV", "utf8", text), out |-> <<>>]

\* int FSM_CHAR()
Lexer_FSM_CHAR(l) ==
  Bind(get_utf8_byte(l.in), LAMBDA g :
    [l EXCEPT !.in = g.b, !.got_ = g.c,
              !.str_ = IF g.c # EOF THEN Append(@, g.c) ELSE @])

\* void FSM_TAKE(Accept cap)
Lexer_FSM_TAKE(l, cap) == [l EXCEPT !.cap_ = cap]

\* a plausible slip: the place of the FSM function is kept with the pattern
fsm_step_shared(l, q) ==
  LET at == IF "at" \in DOMAIN q THEN q.at ELSE l.at IN
  CASE at = "S0" ->
         Bind(Lexer_FSM_CHAR(l), LAMBDA m :
           [l |-> m, q |-> [fsm_ |-> q.fsm_, opc_ |-> q.opc_,
                            at |-> IF m.got_ = SPACE THEN "S1" ELSE "ret"]])
    [] at = "S1" ->
         [l |-> Lexer_FSM_TAKE(l, 1),
          q |-> [fsm_ |-> q.fsm_, opc_ |-> q.opc_, at |-> "ret"]]
    [] OTHER ->
         [l |-> [l EXCEPT !.at = "ret"],
          q |-> [fsm_ |-> q.fsm_, opc_ |-> q.opc_, at |-> "S0"]]

\* one step of the FSM function of pattern q on lexer l: the lexer and the
\* pattern afterwards
fsm_step(l, q) ==
  CASE l.at = "S0" ->
         Bind(Lexer_FSM_CHAR(l), LAMBDA m :
           [l |-> [m EXCEPT !.at = IF m.got_ = SPACE THEN "S1" ELSE "ret"], q |-> q])
    [] l.at = "S1" ->
         [l |-> [Lexer_FSM_TAKE(l, 1) EXCEPT !.at = "ret"], q |-> q]

\* scan() up to the call of the FSM function
Lexer_scan_call(l, q) ==
  IF q.fsm_ # 0 THEN [scan_begin(l) EXCEPT !.at = "S0"]
  ELSE [scan_begin(l) EXCEPT !.at = "ret"]

\* scan() after the FSM function returned: start over, or return cap_ (out
\* is what the caller has seen: the accept code and text of every scan())
Lexer_scan_return(l) ==
  IF scan_restart(l) THEN [scan_begin(l) EXCEPT !.at = "S0"]
  ELSE [l EXCEPT !.at = "idle", !.out = Append(@, <<l.cap_, l.str_>>)]

\* a whole scan() of a lexer that runs alone
RECURSIVE Lexer_run(_, _)
Lexer_run(l, q) ==
  IF l.at = "ret" THEN Lexer_scan_return(l)
  ELSE Bind(fsm_step(l, q).l, LAMBDA m : Lexer_run(m, q))

Lexer_scan(l, q) == Bind(Lexer_scan_call(l, q), LAMBDA c : Lexer_run(c, q))

RECURSIVE Alone(_, _, _)
Alone(l, q, n) ==
  IF n = 0 THEN l.out ELSE Bind(Lexer_scan(l, q), LAMBDA m : Alone(m, q, n - 1))

PairInit ==
  /\ \E t1 \in PairTexts, t2 \in PairTexts :
       lex = [pc |-> "pair", pat |-> Pattern_fsm,
              text |-> <<t1, t2>>,
              l |-> <<Lexer_new(t1), Lexer_new(t2)>>]
  /\ lin = Unused /\ run = Unused
  /\ op = NoOp /\ NoInput /\ NoRest

\* lexer i calls scan()
PairScan ==
  /\ lex.pc = "pair"
  /\ \E i \in {1, 2} :
       /\ lex.l[i].at = "idle" /\ Len(lex.l[i].out) < MaxPairScans
       /\ lex' = [lex EXCEPT !.l[i] = Lexer_scan_call(@, lex.pat)]
  /\ UNCHANGED <<lin, run, op, bi, io, pd, gen, codec>>

\* the FSM function of lexer i makes a step
PairStep ==
  /\ lex.pc = "pair"
  /\ \E i \in {1, 2} :
       /\ lex.l[i].at \in {"S0", "S1"}
       /\ \E r \in {fsm_step(lex.l[i], lex.pat)} :
            lex' = [lex EXCEPT !.l[i] = r.l, !.pat = r.q]
  /\ UNCHANGED <<lin, run, op, bi, io, pd, gen, codec>>

\* the FSM function of lexer i returns to scan()
PairReturn ==
  /\ lex.pc = "pair"
  /\ \E i \in {1, 2} :
       /\ lex.l[i].at = "ret"
       /\ lex' = [lex EXCEPT !.l[i] = Lexer_scan_return(@)]
  /\ UNCHANGED <<lin, run, op, bi, io, pd, gen, codec>>

PairNext == PairScan \/ PairStep \/ PairReturn

MaxSplitText == 5

\* "ab c  d"
SplitTest == <<\h61, \h62, SPACE, \h63, SPACE, SPACE, \h64>>

SplitTexts == {SplitTest} \cup UNION {[1..k -> PairItems] : k \in 0..MaxSplitText}

\* split(): Accept a = 0; while(in.peek_utf8_byte()!=EOF && (a=scan())==0) ;
\* return a: the lexer afterwards and the value returned
RECURSIVE Lexer_split(_, _)
Lexer_split(l, q) ==
  Bind(peek_utf8_byte(l.in, 0), LAMBDA pk :
    IF pk.c = EOF THEN [l |-> [l EXCEPT !.in = pk.b], a |-> 0]
    ELSE Bind(Lexer_scan([l EXCEPT !.in = pk.b], q), LAMBDA m :
           IF m.cap_ = 0 THEN Lexer_split(m, q) ELSE [l |-> m, a |-> m.cap_]))

SplitInit ==
  /\ \E t \in SplitTexts :
       lex = [pc |-> "split", pat |-> Pattern_fsm, text |-> t,
              l |-> Lexer_new(t), pieces |-> <<>>, done |-> FALSE]
  /\ lin = Unused /\ run = Unused
  /\ op = NoOp /\ NoInput /\ NoRest

\* while (lexer.split()) pieces.append(lexer.text()): one round
Split ==
  /\ lex.pc = "split" /\ ~lex.done
  /\ \E r \in {Lexer_split(lex.l, lex.pat)} :
       lex' = [lex EXCEPT !.l = r.l,
                          !.pieces = IF r.a # 0 THEN Append(@, r.l.str_) ELSE @,
                          !.done = (r.a = 0)]
  /\ UNCHANGED <<lin, run, op, bi, io, pd, gen, codec>>

\* the pieces of text t between its spaces
RECURSIVE Fields(_, _)
Fields(t, cur) ==
  IF t = <<>> THEN <<cur>>
  ELSE IF Head(t) = SPACE THEN <<cur>> \o Fields(Tail(t), <<>>)
  ELSE Fields(Tail(t), Append(cur, Head(t)))

\* C25: split() returns the text lying between successive matches of the
\* current pattern (an empty piece when two matches are adjacent): input
\* "ab c  d" split on a single space yields "ab", "c", "" and "d" and then
\* stops.
Orig_C25 ==
  (lex.pc = "split" /\ lex.done /\ lex.text = SplitTest) =>
    lex.pieces = <<<<\h61, \h62>>, <<\h63>>, <<>>, <<\h64>>>>

\* the same for every input: the pieces are the fields between the spaces
Orig_C25_fields ==
  (lex.pc = "split" /\ lex.done /\ lex.text # <<>>) =>
    lex.pieces = Fields(lex.text, <<>>)

\* what the code does: every successful split() leaves the match itself,
\* the text of the last scan(), and there is one for every space of the input
SplitLeavesMatch ==
  lex.pc = "split" =>
    /\ \A k \in 1..Len(lex.pieces) : lex.pieces[k] = <<SPACE>>
    /\ lex.done =>
         Len(lex.pieces) = Cardinality({k \in 1..Len(lex.text) : lex.text[k] = SPACE})

(***************************************************************************)
(* Input::set_encoding and Input::detect_and_skip_bom                      *)
(***************************************************************************)

\* the byte-order mark of an encoding
BomOf(enc) ==
  CASE enc = "utf8"    -> <<\hEF, \hBB, \hBF>>
    [] enc = "utf16be" -> <<\hFE, \hFF>>
    [] enc = "utf16le" -> <<\hFF, \hFE>>
    [] enc = "utf32be" -> <<0, 0, \hFE, \hFF>>
    [] enc = "utf32le" -> <<\hFF, \hFE, 0, 0>>
    [] OTHER           -> <<>>

BomEncodings == {"utf8", "utf16be", "utf16le", "utf32be", "utf32le"}

\* detect_and_skip_bom(): enc_ = encoding::utf8; the input is not looked at
detect_and_skip_bom(in) == [in EXCEPT !.enc_ = "utf8"]

\* set_encoding(enc): enc_ = enc, and detect_and_skip_bom() for auto_detect
set_encoding(in, enc) ==
  IF enc = "auto_detect" THEN detect_and_skip_bom([in EXCEPT !.enc_ = enc])
  ELSE [in EXCEPT !.enc_ = enc]

\* an input that starts with the mark of bom ("none": no mark) before a
\* text of one or two characters in that encoding
DetectInit ==
  /\ \E bom \in BomEncodings \cup {"none"}, n \in 1..2 :
       \E text \in [1..n -> CodePoints] :
         LET enc == IF bom = "none" THEN "utf8" ELSE bom IN
         io = [pc |-> "new", bom |-> bom, text |-> text,
               in |-> [enc_ |-> "utf8", raw |-> BomOf(bom) \o EncodeText(enc, text)],
               asked |-> "none", got |-> <<>>]
  /\ bi = Unused
  /\ op = NoOp /\ NoLexer /\ NoRest

\* set_encoding(enc) before the first read
SetEncoding ==
  /\ io.pc = "new"
  /\ \E enc \in BomEncodings \cup {"auto_detect"} :
       io' = [io EXCEPT !.pc = "set", !.asked = enc, !.in = set_encoding(@, enc)]
  /\ UNCHANGED <<bi, op, lex, lin, run, pd, gen, codec>>

\* get(): one character read, as UTF-8
DetectGet ==
  /\ io.pc \in {"set", "read"} /\ io.in.raw # <<>>
  /\ LET g == Input_get(io.in.enc_, io.in.raw) IN
     io' = [io EXCEPT !.pc = "read", !.in.raw = g.rest, !.got = @ \o g.out]
  /\ UNCHANGED <<bi, op, lex, lin, run, pd, gen, codec>>

DetectNext == SetEncoding \/ DetectGet

\* C26: with the auto_detect encoding a UTF-8, UTF-16 or UTF-32 byte-order
\* mark at the start of the input selects that encoding and is consumed
\* (what is read is the text after the mark), and UTF-8 is chosen only when
\* no mark is found.
Orig_C26 ==
  (io.pc \in {"set", "read"} /\ io.asked = "auto_detect") =>
    /\ io.in.enc_ = (IF io.bom = "none" THEN "utf8" ELSE io.bom)
    /\ io.in.raw = <<>> => io.got = ExpectedUtf8(io.text)

\* what the code does: auto_detect always selects UTF-8 and leaves every
\* byte of the input to be read
DetectIsUtf8 ==
  (io.pc \in {"set", "read"} /\ io.asked = "auto_detect") =>
    /\ io.in.enc_ = "utf8"
    /\ io.pc = "set" =>
         io.in.raw = BomOf(io.bom) \o
                     EncodeText(IF io.bom = "none" THEN "utf8" ELSE io.bom, io.text)

(***************************************************************************)
(* Lexer: the indent callbacks FSM_META_IND, FSM_META_DED, FSM_META_UND    *)
(* No statement of the lexer adds to tab_: it is empty from construction   *)
(* and reset() on.  line is the text of the current input line that the    *)
(* FSM function has read, and hits the lines and columns at which an       *)
(* indent hit was taken; both are kept for the claims only.                *)
(***************************************************************************)

\* the most bytes the FSM function reads in a run
MaxIndChars == 4

TAB == \h09

NL == \h0A

\* opt_.T, the column width of a byte: w for a tab
char_col(w, c) == IF c = TAB THEN w ELSE 1

\* update_col(): mrk_ = true; for(;ind_ < str_.size();++ind_) col_ += opt_.T(str_[ind_])
RECURSIVE update_col(_)
update_col(l) ==
  IF l.ind_ < Len(l.str_)
  THEN update_col([l EXCEPT !.mrk_ = TRUE, !.ind_ = @ + 1,
                            !.col_ = @ + char_col(l.w, l.str_[l.ind_ + 1])])
  ELSE [l EXCEPT !.mrk_ = TRUE]

Back(t) == t[Len(t)]

\* indent(), dedent(), nodent(): the lexer afterwards and the value returned
indent(l) ==
  LET m == update_col(l) IN
  [l |-> m, r |-> m.col_ > 0 /\ (m.tab_ = <<>> \/ Back(m.tab_) < m.col_)]

dedent(l) ==
  LET m == update_col(l) IN
  [l |-> m, r |-> m.tab_ # <<>> /\ Back(m.tab_) > m.col_]

\* a plausible slip: the test that the last stop is not beyond the column
\* left out
nodent_loose(l) ==
  LET m == update_col(l) IN
  [l |-> m, r |-> m.col_ <= 0 \/ (m.tab_ # <<>> /\ Back(m.tab_) >= m.col_)]

nodent(l) ==
  LET m == update_col(l) IN
  [l |-> m, r |-> /\ (m.col_ <= 0 \/ (m.tab_ # <<>> /\ Back(m.tab_) >= m.col_))
                  /\ (m.tab_ = <<>> \/ Back(m.tab_) <= m.col_)]

\* the column at which the text of a line begins: the widths of its blanks
RECURSIVE StartColumn(_, _)
StartColumn(w, line) ==
  IF line = <<>> \/ Head(line) \notin {SPACE, TAB} THEN 0
  ELSE char_col(w, Head(line)) + StartColumn(w, Tail(line))

IndInit ==
  /\ \E w \in {2, 4} :
       lex = [pc |-> "indent",
              l |-> [str_ |-> <<>>, cap_ |-> 0, mrk_ |-> FALSE, ind_ |-> 0,
                     ded_ |-> 0, col_ |-> 0, tab_ |-> <<>>, w |-> w],
              line |-> <<>>, lineno |-> 1, chars |-> 0, hits |-> {},
              last |-> [fn |-> "none", r |-> FALSE]]
  /\ lin = Unused /\ run = Unused
  /\ op = NoOp /\ NoInput /\ NoRest

\* scan() starts: str_.clear(); cap_ = 0
IndScan ==
  /\ lex.pc = "indent"
  /\ lex.last.fn # "scan"
  /\ lex' = [lex EXCEPT !.l = scan_begin(@), !.last = [fn |-> "scan", r |-> FALSE]]
  /\ UNCHANGED <<lin, run, op, bi, io, pd, gen, codec>>

\* FSM_CHAR() reading byte c
IndChar ==
  /\ lex.pc = "indent" /\ lex.chars < MaxIndChars
  /\ \E c \in {SPACE, TAB, NL, \h61} :
       lex' = [lex EXCEPT !.l.str_ = Append(@, c), !.chars = @ + 1,
                          !.line = IF c = NL THEN <<>> ELSE Append(@, c),
                          !.lineno = IF c = NL THEN @ + 1 ELSE @,
                          !.last = [fn |-> "char", r |-> FALSE]]
  /\ UNCHANGED <<lin, run, op, bi, io, pd, gen, codec>>

\* FSM_META_IND(); a hit is taken at the start column of the line
FSM_META_IND ==
  /\ lex.pc = "indent" /\ lex.last.fn = "char"
  /\ LET d == indent(lex.l) IN
     lex' = [lex EXCEPT !.l = d.l, !.last = [fn |-> "IND", r |-> d.r],
                        !.hits = IF d.r
                                 THEN @ \cup {<<lex.lineno, StartColumn(lex.l.w, lex.line)>>}
                                 ELSE @]
  /\ UNCHANGED <<lin, run, op, bi, io, pd, gen, codec>>

\* FSM_META_DED()
FSM_META_DED ==
  /\ lex.pc = "indent" /\ lex.last.fn = "char"
  /\ LET d == dedent(lex.l) IN
     lex' = [lex EXCEPT !.l = d.l, !.last = [fn |-> "DED", r |-> d.r]]
  /\ UNCHANGED <<lin, run, op, bi, io, pd, gen, codec>>

\* FSM_META_UND(): mrk = mrk_ && !nodent(); mrk_ = false; ded_ = 0
FSM_META_UND ==
  /\ lex.pc = "indent" /\ lex.last.fn = "char"
  /\ LET d == IF lex.l.mrk_ THEN nodent(lex.l) ELSE [l |-> lex.l, r |-> TRUE] IN
     lex' = [lex EXCEPT !.l = [d.l EXCEPT !.mrk_ = FALSE, !.ded_ = 0],
                        !.last = [fn |-> "UND", r |-> lex.l.mrk_ /\ ~d.r]]
  /\ UNCHANGED <<lin, run, op, bi, io, pd, gen, codec>>

IndNext == IndScan \/ IndChar \/ FSM_META_IND \/ FSM_META_DED \/ FSM_META_UND

\* C27: the lexer records indent stops: after an indent hit is taken at
\* column c, a later line whose start column is below c produces a dedent
\* hit (FSM_META_DED returns true), and a later line starting at column c
\* produces neither an indent nor a dedent hit.
Orig_C27 ==
  lex.pc = "indent" =>
    LET col   == StartColumn(lex.l.w, lex.line)
        stops == {h[2] : h \in {g \in lex.hits : g[1] < lex.lineno}}
    IN  /\ (lex.last.fn = "DED" /\ \E c \in stops : col < c) => lex.last.r
        /\ (lex.last.fn \in {"IND", "DED"} /\ col \in stops /\
            \A c \in stops : c <= col) => ~lex.last.r

\* what the code does: no stop is ever recorded, so FSM_META_DED is never
\* true and FSM_META_IND is true whenever the column counter is above 0
NoStops ==
  lex.pc = "indent" =>
    /\ lex.l.tab_ = <<>>
    /\ lex.last.fn = "DED" => ~lex.last.r
    /\ lex.last.fn = "IND" => (lex.last.r <=> lex.l.col_ > 0)

(***************************************************************************)
(* DFA::State::edges: the transitions of a state built by subset           *)
(* construction.  The bodies of compile() and compile_transition() are not *)
(* part of the sources at hand; the moves of a state are modelled after    *)
(* the description of the DFA builder: the characters of the positions of  *)
(* the state are partitioned into maximal sets on which exactly the same   *)
(* positions fire, and each set yields one move.  An edge map is a set of  *)
(* records [lo, hi, to] with one record for a key lo, as std::map keeps.   *)
(***************************************************************************)

\* the largest character of the alphabet of a run, and the positions of a state
MaxEdgeChar == 3

MaxPositions == 2

EdgeChars == 0..MaxEdgeChar

\* the positions of state cs (a function from positions to their character
\* sets) that fire on character c
Fire(cs, c) == {q \in DOMAIN cs : c \in cs[q]}

\* a plausible slip: one move for every position, its characters as they are
Moves_each(cs) ==
  {[chars |-> cs[q], follow |-> {q}] : q \in {r \in DOMAIN cs : cs[r] # {}}}

\* the moves of a state: one for every set of positions that fires together
Moves(cs) ==
  {[chars |-> {c \in EdgeChars : Fire(cs, c) = F}, follow |-> F] :
     F \in {Fire(cs, c) : c \in EdgeChars} \ {{}}}

\* the maximal runs lo..hi of consecutive characters of a set
Runs(chars) ==
  {r \in EdgeChars \X EdgeChars :
     /\ r[1] <= r[2]
     /\ \A c \in r[1]..r[2] : c \in chars
     /\ (r[1] - 1) \notin chars /\ (r[2] + 1) \notin chars}

\* state->edges[lo] = std::pair(hi, target) for every run of every move: a
\* later assignment to the same key replaces the earlier one
Edges_of(moves) ==
  LET all  == UNION {{[lo |-> r[1], hi |-> r[2], to |-> m.follow] : r \in Runs(m.chars)} :
                       m \in moves}
      keys == {e.lo : e \in all}
  IN  {CHOOSE e \in all : e.lo = k : k \in keys}

CharSets == SUBSET EdgeChars

EdgeInit ==
  /\ \E n \in 1..MaxPositions : \E cs \in [1..n -> CharSets] :
       gen = [pc |-> "state", cs |-> cs, edges |-> {}]
  /\ op = NoOp /\ NoLexer /\ NoInput /\ pd = Unused /\ codec = Unused

\* the transitions of the state are compiled
CompileState ==
  /\ gen.pc = "state"
  /\ gen' = [gen EXCEPT !.pc = "compiled", !.edges = Edges_of(Moves(gen.cs))]
  /\ UNCHANGED <<op, lex, lin, run, bi, io, pd, codec>>

Covering(c) == {e \in gen.edges : e.lo <= c /\ c <= e.hi}

lowercase_add(c) == (c + \h20) % 256

\* lowercase(c): static_cast<unsigned char>(c | 0x20)
lowercase(c) == BitOr(c, \h20) % 256

\* uppercase(c): static_cast<unsigned char>(c & ~0x20)
uppercase(c) == BitAnd(c, \hFFFF - \h20) % 256

\* a Char: the bytes and the meta characters
CaseChars == 0..Meta_DED

UpperLetters == \h41..\h5A

LowerLetters == \h61..\h7A

\* the letter of the other case, by the distance of the two alphabets
OtherCase(c) == IF c \in UpperLetters THEN c + (\h61 - \h41) ELSE c - (\h61 - \h41)

CaseInit ==
  /\ \E c \in CaseChars :
       gen = [pc |-> "char", c |-> c, lower |-> 0, upper |-> 0, rev |-> 0, rev2 |-> 0]
  /\ op = NoOp /\ NoLexer /\ NoInput /\ pd = Unused /\ codec = Unused

\* the three functions applied to c, and reversecase to its own result
ApplyCase ==
  /\ gen.pc = "char"
  /\ gen' = [gen EXCEPT !.pc = "cased", !.lower = lowercase(gen.c),
                        !.upper = uppercase(gen.c), !.rev = reversecase(gen.c),
                        !.rev2 = reversecase(reversecase(gen.c))]
  /\ UNCHANGED <<op, lex, lin, run, bi, io, pd, codec>>

\* C29: for every ASCII letter c, lowercase(c) and uppercase(c) are exactly
\* c and its opposite-case letter (the lower-case one and the upper-case
\* one), reversecase(c) is the opposite-case letter, and reversecase applied
\* twice returns its argument, as it does for every byte.
Thm_C29 ==
  gen.pc = "cased" =>
    /\ gen.c \in UpperLetters \cup LowerLetters =>
         /\ {gen.lower, gen.upper} = {gen.c, OtherCase(gen.c)}
         /\ gen.lower \in LowerLetters /\ gen.upper \in UpperLetters
         /\ gen.rev = OtherCase(gen.c)
    /\ gen.c <= \hFF => gen.rev2 = gen.c

\* the lower-case letter z: lowercase leaves it, uppercase gives Z
Wit_C29 ==
  gen.pc = "cased" /\ gen.c = \h7A /\ gen.lower = \h7A /\ gen.upper = \h5A /\
  gen.rev = \h5A /\ gen.rev2 = \h7A

(***************************************************************************)
(* utf8(a, b): the regex for a range of code points (utf8.h), with the     *)
(* default arguments esc = 'x', par = "(", strict = true.  The regex is a  *)
(* sequence of tokens <<"r", lo, hi>> (what regex_char and regex_range     *)
(* write: one byte of lo..hi), <<"(", 0, 0>>, <<")", 0, 0>>, <<"|", 0, 0>>.*)
(* Byte arrays are sequences; At(xs, i) is xs[i] of the C code.            *)
(***************************************************************************)

At(xs, i) == xs[i + 1]

regex_range(a, b) == <<"r", a, b>>

regex_char(a) == <<"r", a, a>>

\* any: regex_range(any, 0x80, 0xbf, esc)
RxAny == regex_range(\h80, \hBF)

RxOpen == <<"(", 0, 0>>

RxClose == <<")", 0, 0>>

RxBar == <<"|", 0, 0>>

RECURSIVE Times(_, _)
Times(tok, k) == IF k <= 0 THEN <<>> ELSE <<tok>> \o Times(tok, k - 1)

min_utf8_strict ==
  << <<\h00>>, <<\hC2, \h80>>, <<\hE0, \hA0, \h80>>, <<\hF0, \h90, \h80, \h80>> >>

max_utf8 ==
  << <<\h7F>>, <<\hDF, \hBF>>, <<\hEF, \hBF, \hBF>>, <<\hF7, \hBF, \hBF, \hBF>> >>

\* for (i = 0; i < n && as[i] == bs[i]; ++i): the value of i afterwards
RECURSIVE CommonPrefix(_, _, _, _)
CommonPrefix(as, bs, n, i) ==
  IF i < n /\ At(as, i) = At(bs, i) THEN CommonPrefix(as, bs, n, i + 1) ELSE i

\* for (++i; i < n && xs[i] == fill; ++i) regex.append(any): i and the regex
RECURSIVE SkipFill(_, _, _, _, _)
SkipFill(xs, n, i, fill, regex) ==
  IF i < n /\ At(xs, i) = fill THEN SkipFill(xs, n, i + 1, fill, Append(regex, RxAny))
  ELSE [i |-> i, regex |-> regex]

\* the `while (i + 1 < n)` loop of the lower part (low) and of the upper
\* part, the range of the last byte and the p closing parentheses
RECURSIVE PartLoop(_, _, _, _, _, _)
PartLoop(xs, n, i, p, regex, low) ==
  LET fill == IF low THEN \h80 ELSE \hBF
      edge == IF low THEN \hBF ELSE \h80
      Rest(x) == IF low THEN regex_range(x, \hBF) ELSE regex_range(\h80, x)
      Side(x) == IF low THEN regex_range(x + 1, \hBF) ELSE regex_range(\h80, x - 1)
  IN  IF i + 1 < n
      THEN IF At(xs, i + 1) = fill
           THEN Bind(SkipFill(xs, n, i + 1, fill, Append(regex, Rest(At(xs, i)))),
                     LAMBDA k : PartLoop(xs, n, k.i, p, k.regex, low))
           ELSE IF At(xs, i) # edge
                THEN PartLoop(xs, n, i + 1, p + 1,
                              regex \o <<RxOpen, Side(At(xs, i))>> \o Times(RxAny, n - i - 1)
                                    \o <<RxBar, regex_char(At(xs, i))>>, low)
                ELSE PartLoop(xs, n, i + 1, p, Append(regex, regex_char(At(xs, i))), low)
      ELSE (IF i < n THEN Append(regex, Rest(At(xs, i))) ELSE regex) \o Times(RxClose, p)

\* the body of `while (n <= m)` for one length n: what is appended
Utf8Round(as, bs, n) ==
  LET i  == CommonPrefix(as, bs, n, 0)
      l  == IF \E k \in (i + 1)..(n - 1) : At(as, k) # \h80 THEN 1 ELSE 0
      h  == IF \E k \in (i + 1)..(n - 1) : At(bs, k) # \hBF THEN 1 ELSE 0
      r0 == [k \in 1..i |-> regex_char(At(as, k - 1))]
  IN  IF i + 1 < n
      THEN LET r1 == IF i # 0 THEN Append(r0, RxOpen) ELSE r0
               r2 == IF l # 0
                     THEN PartLoop(as, n, i + 1, 0, Append(r1, regex_char(At(as, i))), TRUE)
                     ELSE r1
               r3 == IF At(as, i) + l <= At(bs, i) - h
                     THEN (IF l # 0 THEN Append(r2, RxBar) ELSE r2)
                          \o <<regex_range(At(as, i) + l, At(bs, i) - h)>>
                          \o Times(RxAny, n - i - 1)
                     ELSE r2
               r4 == IF h # 0
                     THEN PartLoop(bs, n, i + 1, 0,
                                   r3 \o <<RxBar, regex_char(At(bs, i))>>, FALSE)
                     ELSE r3
           IN  IF i # 0 THEN Append(r4, RxClose) ELSE r4
      ELSE IF i < n THEN Append(r0, regex_range(At(as, i), At(bs, i)))
      ELSE r0

\* while (n <= m): bs is max_utf8[n - 1] below length m and bt at length m;
\* as becomes min_utf8[n] for the next length
RECURSIVE Utf8Loop(_, _, _, _, _)
Utf8Loop(as, bt, n, m, regex) ==
  IF n <= m
  THEN LET bs == IF n < m THEN max_utf8[n] ELSE bt
           r  == regex \o Utf8Round(as, bs, n)
       IN  IF n < m THEN Utf8Loop(min_utf8_strict[n + 1], bt, n + 1, m, Append(r, RxBar))
           ELSE r
  ELSE regex

\* utf8(a, b): if (static_cast<unsigned char>(a) > static_cast<unsigned char>(b))
\* b = a; then the loop over the lengths
utf8(a, b) ==
  Bind(IF a % 256 > b % 256 THEN a ELSE b, LAMBDA b1 :
    Bind(to_utf8(a), LAMBDA at : Bind(to_utf8(b1), LAMBDA bt :
      Utf8Loop(at, bt, Len(at), Len(bt), <<>>))))

\* the positions of text s that the regex t, read from token i on, can
\* reach from the positions of S: a sequence up to `|`, `)` or the end, and
\* an alternation of sequences
RECURSIVE RxSeq(_, _, _, _), RxAlt(_, _, _, _)
RxSeq(t, s, i, S) ==
  IF i > Len(t) \/ t[i][1] \in {"|", ")"} THEN [i |-> i, S |-> S]
  ELSE IF t[i][1] = "r"
    THEN RxSeq(t, s, i + 1,
               {q + 1 : q \in {x \in S : x <= Len(s) /\ s[x] >= t[i][2] /\ s[x] <= t[i][3]}})
  ELSE Bind(RxAlt(t, s, i + 1, S), LAMBDA r : RxSeq(t, s, r.i + 1, r.S))

RxAlt(t, s, i, S) ==
  Bind(RxSeq(t, s, i, S), LAMBDA r :
    IF r.i <= Len(t) /\ t[r.i][1] = "|"
    THEN Bind(RxAlt(t, s, r.i + 1, S), LAMBDA r2 : [i |-> r2.i, S |-> r.S \cup r2.S])
    ELSE r)

\* regex t matches the whole of s
Matches(t, s) == (Len(s) + 1) \in RxAlt(t, s, 1, {1}).S

\* the bounds of the ranges tried
RangePoints ==
  {\h00, \h41, \h7F, \h80, \hFF, \h0100, \h07FF, \h0800, \h0FFF, \h1000, \hFFFF,
   \h010000, \h010005, \h010080, \h010FC5, UNICODE_MAX}

\* the code points a regex is tried on: the bounds and their neighbours
TryPoints ==
  {c \in UNION {{x - 1, x, x + 1, x + \h40} : x \in RangePoints} : c >= 0 /\ c <= UNICODE_MAX}

\* byte sequences that are the UTF-8 encoding of no code point
NotUtf8 == {<<>>, <<\h80>>, <<\hC0, \h80>>, <<\hE0, \h80, \h80>>, <<\hC3>>, <<\h41, \h41>>}

RangeInit ==
  /\ \E a \in RangePoints, b \in RangePoints :
       /\ a <= b
       /\ codec = [pc |-> "range", a |-> a, b |-> b, regex |-> <<>>]
  /\ op = NoOp /\ NoLexer /\ NoInput /\ pd = Unused /\ gen = Unused

Utf8Range ==
  /\ codec.pc = "range"
  /\ codec' = [codec EXCEPT !.pc = "regex", !.regex = utf8(codec.a, codec.b)]
  /\ UNCHANGED <<op, lex, lin, run, bi, io, pd, gen>>

\* the regex matches the encoding of exactly the code points of [a, b]
\* among those tried, and no sequence that is not UTF-8
ExactRange(t, a, b) ==
  /\ \A c \in TryPoints : Matches(t, to_utf8(c)) <=> (a <= c /\ c <= b)
  /\ \A s \in NotUtf8 : ~Matches(t, s)

\* C30: for all code points a <= b <= 0x10FFFF, utf8(a, b) returns a regex
\* that matches exactly the UTF-8 encodings of the code points in [a, b]:
\* every code point of the range (b included) and no other byte sequence.
Orig_C30 ==
  codec.pc = "regex" => ExactRange(codec.regex, codec.a, codec.b)

\* in the bytes xs no byte `fill` after the second byte is followed by
\* another byte
FillLast(xs, fill) ==
  \A k \in 3..Len(xs) : xs[k] = fill => \A j \in k..Len(xs) : xs[j] = fill

\* what holds of the code: the regex is exact whenever the low byte of a
\* is not above the low byte of b and the shortcut taken for a byte 0x80 of
\* a (0xbf of b) finds only such bytes behind it
ExactWhenLowBytesOrdered ==
  (/\ codec.pc = "regex" /\ codec.a % 256 <= codec.b % 256
   /\ FillLast(to_utf8(codec.a), \h80) /\ FillLast(to_utf8(codec.b), \hBF)) =>
    ExactRange(codec.regex, codec.a, codec.b)

\* and otherwise b is replaced by a: the regex matches a alone
SingleWhenLowBytesCross ==
  (codec.pc = "regex" /\ codec.a % 256 > codec.b % 256) =>
    ExactRange(codec.regex, codec.a, codec.a)

(***************************************************************************)
(* Input::get_raw_able and Input::get_raw() on the kinds of source.  A     *)
(* source is a record: type, the bytes not yet read, and for a FILE its    *)
(* end-of-file and error indicators, for a stream its eofbit and failbit.  *)
(***************************************************************************)

\* the longest raw input of a run
MaxRaw == 3

RawTypes == {"CCHAR_P", "SV", "FILE_P", "STD_ISTREAM_P", "CUCHAR_P", "USV", "NIL"}

RawBytes == {\h41, \h0A}

\* std::ios::good(): no state bit is set
Stream_good(src) == ~src.eof /\ ~src.fail

\* Input::get_raw_able()
get_raw_able(src) ==
  CASE src.type \in {"CCHAR_P", "CUCHAR_P"} -> src.bytes # <<>>
    [] src.type \in {"SV", "USV"}           -> Len(src.bytes) > 0
    [] src.type = "FILE_P"                  -> ~src.eof /\ ~src.fail
    [] src.type = "STD_ISTREAM_P"           -> ~Stream_good(src)
    [] OTHER                                -> FALSE

\* int Input::get_raw(): the source afterwards and the value returned;
\* fgetc sets the end-of-file indicator when nothing is left (or, with
\* broken, the error indicator), istream::get sets eofbit and failbit
get_raw(src, broken) ==
  CASE src.type \in {"CCHAR_P", "CUCHAR_P", "SV", "USV"} ->
         IF src.bytes # <<>> THEN [src |-> [src EXCEPT !.bytes = Tail(@)], c |-> Head(src.bytes)]
         ELSE [src |-> src, c |-> EOF]
    [] src.type = "FILE_P" ->
         IF broken THEN [src |-> [src EXCEPT !.fail = TRUE], c |-> EOF]
         ELSE IF src.bytes # <<>>
           THEN [src |-> [src EXCEPT !.bytes = Tail(@)], c |-> Head(src.bytes)]
         ELSE [src |-> [src EXCEPT !.eof = TRUE], c |-> EOF]
    [] src.type = "STD_ISTREAM_P" ->
         IF ~Stream_good(src) THEN [src |-> [src EXCEPT !.fail = TRUE], c |-> EOF]
         ELSE IF src.bytes # <<>>
           THEN [src |-> [src EXCEPT !.bytes = Tail(@)], c |-> Head(src.bytes)]
         ELSE [src |-> [src EXCEPT !.eof = TRUE, !.fail = TRUE], c |-> EOF]
    [] OTHER -> [src |-> src, c |-> EOF]

RawInit ==
  /\ \E type \in RawTypes, n \in 0..MaxRaw :
       \E bytes \in [1..n -> RawBytes] :
         io = [pc |-> "raw",
               src |-> [type |-> type, bytes |-> IF type = "NIL" THEN <<>> ELSE bytes,
                        eof |-> FALSE, fail |-> FALSE],
               last |-> [fn |-> "none", r |-> FALSE, c |-> 0]]
  /\ bi = Unused
  /\ op = NoOp /\ NoLexer /\ NoRest

\* get_raw_able() is asked
RawAble ==
  /\ io.pc = "raw" /\ io.last.fn # "able"
  /\ io' = [io EXCEPT !.last = [fn |-> "able", r |-> get_raw_able(io.src), c |-> 0]]
  /\ UNCHANGED <<bi, op, lex, lin, run, pd, gen, codec>>

\* get_raw(); a read of a FILE may fail
RawGet ==
  /\ io.pc = "raw" /\ io.last.c # EOF
  /\ \E broken \in BOOLEAN :
       /\ broken => io.src.type = "FILE_P"
       /\ \E g \in {get_raw(io.src, broken)} :
            io' = [io EXCEPT !.src = g.src, !.last = [fn |-> "get", r |-> FALSE, c |-> g.c]]
  /\ UNCHANGED <<bi, op, lex, lin, run, pd, gen, codec>>

RawNext == RawAble \/ RawGet

\* C31: get_raw_able() is true exactly when a following get_raw() can be
\* performed: for string and view sources when unread bytes remain, for
\* FILE sources when neither end-of-file nor error is set, for stream
\* sources when the stream is in a good state, and never for a NIL source.
Orig_C31 ==
  (io.pc = "raw" /\ io.last.fn = "able") =>
    (io.last.r <=>
       CASE io.src.type \in {"CCHAR_P", "CUCHAR_P", "SV", "USV"} -> io.src.bytes # <<>>
         [] io.src.type = "FILE_P"        -> ~io.src.eof /\ ~io.src.fail
         [] io.src.type = "STD_ISTREAM_P" -> Stream_good(io.src)
         [] OTHER                         -> FALSE)

\* what holds of the code: the claim for every source but a stream, for
\* which the answer is the opposite of good()
RawAbleButStream ==
  (io.pc = "raw" /\ io.last.fn = "able") =>
    (io.last.r <=>
       CASE io.src.type \in {"CCHAR_P", "CUCHAR_P", "SV", "USV"} -> io.src.bytes # <<>>
         [] io.src.type = "FILE_P"        -> ~io.src.eof /\ ~io.src.fail
         [] io.src.type = "STD_ISTREAM_P" -> ~Stream_good(io.src)
         [] OTHER                         -> FALSE)

(***************************************************************************)
(* Termination of Lexer::scan.  The FSM function of a pattern is any       *)
(* function that makes the callbacks and returns; each of its runs is      *)
(* finite, so the steps of a run are counted from its start, also when     *)
(* scan() starts it again.                                                 *)
(***************************************************************************)

\* single-byte texts: what FSM_TAKE(cap, c) and FSM_REDO(c) push back is
\* then the byte that was read
RedoTexts == UNION {[1..k -> {\h0A, \h41}] : k \in 0..2}

RedoInit ==
  \E st \in {"SV", "FILE_P"}, text \in RedoTexts, A \in BOOLEAN, fsm \in BOOLEAN :
    /\ lex = [pc |-> "idle", cap_ |-> 0, str_ |-> <<>>, A |-> A, fsm |-> fsm]
    /\ lin = BufferedInput(st, "utf8", EncodeText("utf8", text))
    /\ run = [last |-> "none", lastTake |-> 0, lastEvent |-> 0, read |-> FALSE,
              c |-> EOF, steps |-> 0, scans |-> 0, result |-> 0]
    /\ op = NoOp /\ NoInput /\ NoRest

\* the FSM function returns: `if(cap_==REDO && !opt_.A) goto begin;`
\* starts a new run, otherwise scan() returns cap_
RedoReturn ==
  /\ lex.pc = "fsm"
  /\ IF scan_restart(lex)
     THEN /\ lex' = scan_begin(lex)
          /\ run' = [NewRun("restart", run) EXCEPT !.steps = 0]
     ELSE /\ lex' = [lex EXCEPT !.pc = "idle"]
          /\ run' = [run EXCEPT !.last = "return", !.result = lex.cap_]
  /\ UNCHANGED <<lin, op, bi, io, pd, gen, codec>>

\* FSM_TAKE(cap, c) and FSM_REDO(c) as a state of the FSM function makes
\* them: with the c it has just got from FSM_CHAR
FreshTake_c == run.last = "char" /\ FSM_TAKE_c

FreshRedo_c == run.last = "char" /\ FSM_REDO_c

RedoNext ==
  Scan \/ FSM_CHAR \/ FSM_TAKE \/ FreshTake_c \/ FSM_REDO \/ FreshRedo_c \/ RedoReturn

\* C32: with option A off, scan() terminates on every finite input: a call
\* of scan() that entered the FSM function eventually returns.
Orig_C32 == (lex.pc = "fsm" /\ ~lex.A) ~> (lex.pc = "idle")

\* what holds of the code: with option A on every call of scan() returns,
\* after the one run of the FSM function
ReturnsWithA == (lex.pc = "fsm" /\ lex.A) ~> (lex.pc = "idle")

\* and with option A off a restart leaves the input where the discarded run
\* left it, which is where that run began when the run consumed nothing
RestartWhereRunEnded ==
  [][run'.last = "restart" => (lin' = lin /\ ~lex.A)]_vars

\* C36: during a scan no input byte is duplicated or lost between the
\* matched text and the input: over every FSM_CHAR, FSM_TAKE(cap, c) and
\* FSM_REDO(c) with c the byte last returned by FSM_CHAR, str() followed by
\* the unread input stays what it was (the input at the start of the run,
\* when str() was empty).
Orig_C36 ==
  [][(lex.pc = "fsm" /\ lex'.pc = "fsm" /\ run'.last \in {"char", "take", "redo"}) =>
        lex'.str_ \o Drain(lin') = lex.str_ \o Drain(lin)]_vars

\* what holds of the code: FSM_CHAR moves a byte from the input to str();
\* FSM_TAKE(cap, c) and FSM_REDO(c) put c back in front of the input and
\* leave it in str() as well
TakeKeepsChar ==
  [][(lex.pc = "fsm" /\ lex'.pc = "fsm") =>
        /\ run'.last = "char" => lex'.str_ \o Drain(lin') = lex.str_ \o Drain(lin)
        /\ (run'.last \in {"take", "redo"} /\ lin' # lin) =>
              /\ lex'.str_ = lex.str_ /\ lex.str_ # <<>>
              /\ Drain(lin') = <<lex.str_[Len(lex.str_)]>> \o Drain(lin)]_vars

(***************************************************************************)
(* Position tracking of BufferedInput: lineno and colno under get, peek    *)
(* and unget of the character just read.  io holds what the caller knows:  *)
(* nl, the newline bytes get_utf8_byte delivered and that were not pushed  *)
(* back; bytes, the bytes of the character being read; mark, lineno and    *)
(* colno as they were before its first byte; before, the object before the *)
(* last call.                                                              *)
(***************************************************************************)

\* the most peeks of a run
MaxTrackPeeks == 2

TrackItems == {\h0A, \h41, \hE9}

\* the bytes of a UTF-8 sequence, by its lead byte
Utf8Need(lead) ==
  IF lead < \h80 THEN 1 ELSE IF lead < \hE0 THEN 2 ELSE IF lead < \hF0 THEN 3 ELSE 4

\* the character just read is complete
CharRead == io.bytes # <<>> /\ Len(io.bytes) = Utf8Need(io.bytes[1])

TrackInit ==
  /\ \E st \in {"FILE_P", "SV"} :
       \E text \in UNION {[1..k -> TrackItems] : k \in 0..MaxChars} :
         /\ bi = BufferedInput(st, "utf8", EncodeText("utf8", text))
         /\ io = [pc |-> "track", nl |-> 0, bytes |-> <<>>,
                  mark |-> [lineno |-> 1, colno |-> 1], before |-> <<>>,
                  peeks |-> 0, ungets |-> 0,
                  last |-> [fn |-> "none", i |-> 0, c |-> 0]]
  /\ op = NoOp /\ NoLexer /\ NoRest

\* c = in.get_utf8_byte()
TrackGet ==
  /\ io.pc = "track" /\ ~(io.last.fn = "get" /\ io.last.c = EOF)
  /\ \E g \in {get_utf8_byte(bi)} :
       LET lead == g.c # EOF /\ (g.c < \h80 \/ g.c >= \hC0)
       IN  /\ bi' = g.b
           /\ io' = [io EXCEPT
                 !.nl = IF g.c = \h0A THEN @ + 1 ELSE @,
                 !.bytes = IF g.c = EOF THEN <<>>
                           ELSE IF lead THEN <<g.c>> ELSE Append(@, g.c),
                 !.mark = IF lead THEN [lineno |-> bi.lineno, colno |-> bi.colno] ELSE @,
                 !.before = bi,
                 !.last = [fn |-> "get", i |-> 0, c |-> g.c]]
  /\ UNCHANGED <<op, lex, lin, run, pd, gen, codec>>

\* c = in.peek_utf8_byte(i)
TrackPeek ==
  /\ io.pc = "track" /\ io.peeks < MaxTrackPeeks
  /\ \E i \in 0..MaxPeek :
       \E p \in {peek_utf8_byte(bi, i)} :
         /\ bi' = p.b
         /\ io' = [io EXCEPT !.peeks = @ + 1, !.before = bi, !.bytes = <<>>,
                             !.last = [fn |-> "peek", i |-> i, c |-> p.c]]
  /\ UNCHANGED <<op, lex, lin, run, pd, gen, codec>>

\* in.unget(c) with c the character whose bytes the last calls of
\* get_utf8_byte delivered
TrackUnget ==
  /\ io.pc = "track" /\ io.last.fn = "get" /\ CharRead
  /\ io.ungets < MaxUnget
  /\ \E c \in {from_utf8(io.bytes \o <<0, 0, 0>>).c} :
       /\ bi' = unget(bi, c)
       /\ io' = [io EXCEPT !.nl = IF c = \h0A THEN @ - 1 ELSE @,
                           !.bytes = <<>>, !.before = bi, !.ungets = @ + 1,
                           !.last = [fn |-> "unget", i |-> 0, c |-> c]]
  /\ UNCHANGED <<op, lex, lin, run, pd, gen, codec>>

TrackNext == TrackGet \/ TrackPeek \/ TrackUnget

\* C34: peek_utf8_byte leaves lineno and colno unchanged, so lineno always
\* equals 1 plus the number of newline bytes delivered by get_utf8_byte()
\* and not pushed back, however many bytes were peeked.
Orig_C34 ==
  io.pc = "track" =>
     /\ io.last.fn = "peek" =>
          (bi.lineno = io.before.lineno /\ bi.colno = io.before.colno)
     /\ bi.lineno = 1 + io.nl

\* what holds of the code: a peek that is served from the unget deque
\* changes nothing, and as long as no peek was made lineno is 1 plus the
\* newline bytes delivered and not pushed back
PeekWithinDeque ==
  io.pc = "track" =>
     /\ (io.last.fn = "peek" /\ io.last.i < Len(io.before.buf_unget)) => bi = io.before
     /\ io.peeks = 0 => bi.lineno = 1 + io.nl

\* C35: if get_utf8_byte() delivered the bytes of a character c and
\* unget(c) is then called, lineno and colno are what they were before those
\* bytes were read, for single-byte, newline and multi-byte characters.
Orig_C35 ==
  (io.pc = "track" /\ io.last.fn = "unget") =>
     (bi.lineno = io.mark.lineno /\ bi.colno = io.mark.colno)

\* what holds of the code: lineno is restored; colno is restored for a
\* single-byte character other than the newline, is 1 after the newline
\* and stays behind the character for a multi-byte one
UngetRestoresLine ==
  (io.pc = "track" /\ io.last.fn = "unget") =>
     /\ bi.lineno = io.mark.lineno
     /\ bi.colno = IF io.last.c = \h0A THEN 1
                   ELSE IF io.last.c < \h80 THEN io.mark.colno
                   ELSE io.before.colno

(***************************************************************************)
(* Moving a BufferedInput.  bi holds two objects, a (the source of the     *)
(* move) and b (its destination).  An object is a BufferedInput record     *)
(* with one more field, in2: the object whose Input1_ its Input2_ reads    *)
(* while there is no raw buffer (Input2_ is then an Input over an Input&). *)
(* io is what the caller knows: expect, the bytes a would still have       *)
(* delivered when it was moved; got, the bytes b has delivered since;      *)
(* through, whether a read of b went to the Input1_ of a.                  *)
(***************************************************************************)

\* the most calls made on a before it is moved
MaxBefore == 2

MoveItems == {\h41, \hE9}

\* Input2_::set_source(static_cast<Input1_&>(*this)) of the constructors
Object(who, st, bytes) == BufferedInput(st, "utf8", bytes) @@ [in2 |-> who]

\* Input2_ of the object reads the Input1_ of another object
ReadsThrough(o, who) ==
  /\ o.in2 # who
  /\ o.size_buf_raw = 0 /\ no_buffer_needed(o)

\* BufferedInput(BufferedInput&& other) and operator=(BufferedInput&&):
\* Input1_ and Input2_ are moved as they are (other's become NIL), the raw
\* buffer, buf_u8, the unget deque and the counters are taken over; other
\* is left without buffer, its Input2_ on its own Input1_, counters reset
BufferedInput_move(other, who) ==
  [dst |-> other,
   src |-> [other EXCEPT !.st = "NIL", !.src = <<>>, !.size_buf_raw = 0, !.view = <<>>,
                         !.pos_buf_u8 = 0, !.dend_buf_u8 = 0, !.buf_unget = <<>>,
                         !.lineno = 1, !.colno = 1]]

\* get_utf8_byte() on object who: Input2_ reads the Input1_ that in2 names
Object_get(objs, who) ==
  IF ReadsThrough(objs[who], who)
  THEN Bind(get_utf8_byte([objs[who] EXCEPT !.src = objs[objs[who].in2].src]), LAMBDA g :
         [objs |-> [objs EXCEPT ![who] = [g.b EXCEPT !.src = objs[who].src],
                                ![objs[who].in2].src = g.b.src],
          c |-> g.c])
  ELSE Bind(get_utf8_byte(objs[who]), LAMBDA g :
         [objs |-> [objs EXCEPT ![who] = g.b], c |-> g.c])

\* the read goes to Input2_ (nothing pushed back, nothing pending in buf_u8)
AsksInput2(o) ==
  o.buf_unget = <<>> /\ (o.pos_buf_u8 = o.dend_buf_u8 \/ o.dend_buf_u8 = 0)

MoveInit ==
  /\ \E st \in {"SV", "FILE_P"}, assign \in BOOLEAN :
       \E text \in UNION {[1..k -> MoveItems] : k \in 0..MaxChars} :
         /\ bi = [pc |-> "move",
                  a |-> Object("a", st, EncodeText("utf8", text)),
                  b |-> IF assign THEN Object("b", "NIL", <<>>) ELSE NoObject]
         /\ io = [pc |-> "move", moved |-> FALSE, alive |-> TRUE, calls |-> 0,
                  expect |-> <<>>, atmove |-> <<>>, got |-> <<>>, eof |-> FALSE,
                  through |-> FALSE, last |-> "none"]
  /\ op = NoOp /\ NoLexer /\ NoRest

\* a.get_utf8_byte() before the move
MoveGetBefore ==
  /\ io.pc = "move" /\ ~io.moved /\ io.calls < MaxBefore
  /\ \E g \in {get_utf8_byte(bi.a)} :
       /\ bi' = [bi EXCEPT !.a = g.b]
       /\ io' = [io EXCEPT !.calls = @ + 1, !.last = "get"]
  /\ UNCHANGED <<op, lex, lin, run, pd, gen, codec>>

\* a.peek_utf8_byte(i) before the move
MovePeekBefore ==
  /\ io.pc = "move" /\ ~io.moved /\ io.calls < MaxBefore
  /\ \E i \in 0..MaxPeek :
       \E g \in {peek_utf8_byte(bi.a, i)} :
         /\ bi' = [bi EXCEPT !.a = g.b]
         /\ io' = [io EXCEPT !.calls = @ + 1, !.last = "peek"]
  /\ UNCHANGED <<op, lex, lin, run, pd, gen, codec>>

Moved(how) ==
  \E m \in {BufferedInput_move(bi.a, "b")} :
    /\ bi' = [bi EXCEPT !.a = m.src, !.b = m.dst]
    /\ io' = [io EXCEPT !.moved = TRUE, !.expect = Drain(bi.a), !.atmove = bi.a,
                        !.last = how]

\* BufferedInput b(std::move(a)), also as the member `in` of a lexer
\* (AbstractLexer(AbstractLexer&&))
MoveConstructInput ==
  /\ io.pc = "move" /\ ~io.moved /\ bi.b = NoObject
  /\ Moved("construct")
  /\ UNCHANGED <<op, lex, lin, run, pd, gen, codec>>

\* b = std::move(a), also as the member `in` of a lexer
MoveAssignInput ==
  /\ io.pc = "move" /\ ~io.moved /\ bi.b # NoObject
  /\ Moved("assign")
  /\ UNCHANGED <<op, lex, lin, run, pd, gen, codec>>

\* the moved-from object goes out of scope
DestroyMoved ==
  /\ io.pc = "move" /\ io.moved /\ io.alive
  /\ io' = [io EXCEPT !.alive = FALSE, !.last = "destroy"]
  /\ UNCHANGED <<bi, op, lex, lin, run, pd, gen, codec>>

\* b.get_utf8_byte() after the move; a read through the Input1_ of a
\* destroyed object is undefined: any byte or EOF may come back
MoveGetAfter ==
  /\ io.pc = "move" /\ io.moved /\ ~io.eof
  /\ LET thr == ReadsThrough(bi.b, "b") /\ AsksInput2(bi.b)
     IN  IF thr /\ ~io.alive
         THEN /\ \E c \in {EOF, \h41} :
                   io' = [io EXCEPT !.through = TRUE, !.last = "get",
                                    !.got = IF c = EOF THEN @ ELSE Append(@, c),
                                    !.eof = (c = EOF) \/ Len(io.got) > Len(io.expect)]
              /\ bi' = bi
         ELSE \E g \in {Object_get(bi, "b")} :
                /\ bi' = g.objs
                /\ io' = [io EXCEPT !.through = @ \/ thr, !.last = "get",
                                    !.got = IF g.c = EOF THEN @ ELSE Append(@, g.c),
                                    !.eof = (g.c = EOF)]
  /\ UNCHANGED <<op, lex, lin, run, pd, gen, codec>>

MoveNext ==
  \/ MoveGetBefore \/ MovePeekBefore \/ MoveConstructInput \/ MoveAssignInput
  \/ DestroyMoved \/ MoveGetAfter

\* C37: moving a BufferedInput preserves the stream: the destination
\* delivers exactly the bytes, in order, that the source object would still
\* have delivered, for buffered and for string sources, and never reads
\* through the moved-from object.
Orig_C37 ==
  (io.pc = "move" /\ io.moved) =>
     /\ IsPrefix(io.got, io.expect)
     /\ io.eof => io.got = io.expect
     /\ ~io.through

\* the bytes of the object that are outside its two Inputs: pushed back or
\* pending in buf_u8
HeldBytes(o) ==
  o.buf_unget \o (IF o.dend_buf_u8 # 0
                  THEN SubSeq(o.buf_u8, o.pos_buf_u8 + 1, o.dend_buf_u8) ELSE <<>>)

\* what holds of the code: the stream is preserved when the source object
\* reads a FILE or has a raw buffer; of a string source without a raw
\* buffer the destination delivers the bytes held in the object itself,
\* and then reads the Input1_ of the moved-from object
MoveKeepsBuffered ==
  (io.pc = "move" /\ io.moved) =>
     IF io.atmove.st = "FILE_P" \/ io.atmove.size_buf_raw # 0
     THEN /\ IsPrefix(io.got, io.expect)
          /\ io.eof => io.got = io.expect
          /\ ~io.through
     ELSE /\ io.alive => IsPrefix(io.got, HeldBytes(io.atmove))
          /\ (io.eof /\ io.alive) => (io.got = HeldBytes(io.atmove) /\ io.through)

(***************************************************************************)
(* The code points Input::get hands to to_utf8.                            *)
(***************************************************************************)

\* to_utf8 is not called
NoArg == 0 - 1

\* the argument of the call of to_utf8 that Input::get makes on the raw
\* bytes r, NoArg when it makes none
to_utf8_arg(enc, r) ==
  CASE enc = "utf8" -> NoArg
    [] enc \in {"utf16be", "utf16le"} ->
         IF Len(r) < 2 THEN NoArg
         ELSE LET be == enc = "utf16be"
                  c  == IF be THEN r[1] * 256 + r[2] ELSE r[1] + r[2] * 256
                  t  == Drop(r, 2)
              IN  IF c < \h80 THEN NoArg
                  ELSE IF c >= \hD800 /\ c < \hE000
                    THEN IF c < \hDC00 /\ Len(t) >= 2
                         THEN LET hi2 == IF be THEN t[1] ELSE t[2]
                                  u2  == IF be THEN t[1] * 256 + t[2] ELSE t[1] + t[2] * 256
                              IN  IF BitAnd(hi2, \hFC) = \hDC
                                  THEN \h010000 - \hDC00 + (c - \hD800) * 1024 + u2
                                  ELSE ERR_CHAR
                         ELSE ERR_CHAR
                  ELSE c
    [] enc \in {"utf32be", "utf32le"} ->
         IF Len(r) < 4 THEN NoArg
         ELSE LET b == IF enc = "utf32be" THEN Take(r, 4) ELSE <<r[4], r[3], r[2], r[1]>>
                  c == (b[1] % \h80) * \h1000000 + Low24(b)
              IN  IF c < \h80 /\ b[1] = 0 THEN NoArg ELSE c
    [] enc = "latin1" ->
         IF r = <<>> \/ Head(r) < \h80 THEN NoArg ELSE Head(r)

\* characters, the halves of a surrogate pair, the last code point and the
\* first value behind it
PassItems == {\h41, \hE9, \h01F600, \hD83D, \hDE00, \h10FFFF, \h110000}

PassInit ==
  /\ \E enc \in Encodings \ {"utf8"} :
       \E text \in UNION {[1..k -> {x \in PassItems : enc = "latin1" => x <= \hFF}]
                            : k \in 0..MaxChars} :
         /\ enc \in {"utf16be", "utf16le"} => \A i \in 1..Len(text) : text[i] <= UNICODE_MAX
         /\ io = [pc |-> "pass", enc |-> enc, rest |-> EncodeText(enc, text),
                  arg |-> NoArg, l |-> 0, calls |-> 0]
  /\ bi = Unused
  /\ op = NoOp /\ NoLexer /\ NoRest

\* l = in.get(buf)
PassGet ==
  /\ io.pc = "pass" /\ io.rest # <<>>
  /\ \E g \in {Input_get(io.enc, io.rest)} :
       io' = [io EXCEPT !.rest = g.rest, !.l = g.l, !.calls = @ + 1,
                        !.arg = to_utf8_arg(io.enc, io.rest)]
  /\ UNCHANGED <<bi, op, lex, lin, run, pd, gen, codec>>

\* C38: every code point Input::get passes to to_utf8 is at most 0x10FFFF,
\* also when the source carries an unpaired UTF-16 surrogate or an
\* out-of-range UTF-32 value.
Orig_C38 ==
  (io.pc = "pass" /\ io.arg # NoArg) => io.arg <= UNICODE_MAX

\* what holds of the code: a UTF-16 unit or pair is passed on as its code
\* point, an unpaired surrogate as ERR_CHAR, which is above UNICODE_MAX; a
\* Latin-1 byte as itself; a UTF-32 value as it is read
PassedOrErrChar ==
  (io.pc = "pass" /\ io.arg # NoArg) =>
     /\ io.l = Len(to_utf8(io.arg))
     /\ CASE io.enc \in {"utf16be", "utf16le"} -> io.arg <= UNICODE_MAX \/ io.arg = ERR_CHAR
          [] io.enc = "latin1" -> io.arg <= \hFF
          [] OTHER -> io.arg <= \h110000

(***************************************************************************)
(* indent(), dedent() and nodent() on every column and every stack of      *)
(* indent stops.  lex.l is the lexer, asked the functions called so far    *)
(* and yes those of them that returned true.                               *)
(***************************************************************************)

\* the largest column and indent stop
MaxCol == 3

\* the most indent stops on the stack
MaxStops == 2

DentFns == {"indent", "dedent", "nodent"}

Dent(fn, l) ==
  CASE fn = "indent" -> indent(l)
    [] fn = "dedent" -> dedent(l)
    [] fn = "nodent" -> nodent(l)

DentInit ==
  /\ \E col \in 0..MaxCol :
       \E tab \in UNION {[1..k -> 0..MaxCol] : k \in 0..MaxStops} :
         lex = [pc |-> "dent",
                l |-> [str_ |-> <<>>, cap_ |-> 0, mrk_ |-> FALSE, ind_ |-> 0,
                       ded_ |-> 0, col_ |-> col, tab_ |-> tab, w |-> 4],
                asked |-> {}, yes |-> {}]
  /\ lin = Unused /\ run = Unused
  /\ op = NoOp /\ NoInput /\ NoRest

Ask(fn) ==
  /\ lex.pc = "dent" /\ fn \notin lex.asked
  /\ \E d \in {Dent(fn, lex.l)} :
       lex' = [lex EXCEPT !.l = d.l, !.asked = @ \cup {fn},
                          !.yes = IF d.r THEN @ \cup {fn} ELSE @]
  /\ UNCHANGED <<lin, run, op, bi, io, pd, gen, codec>>

AskIndent == Ask("indent")

AskDedent == Ask("dedent")

AskNodent == Ask("nodent")

DentNext == AskIndent \/ AskDedent \/ AskNodent

\* C39: for every column value and every indent-stop stack exactly one of
\* indent(), dedent() and nodent() is true: of the three calls made on a
\* lexer exactly one returned true, and in every state exactly one would.
Thm_C39 ==
  lex.pc = "dent" =>
     /\ lex.asked = DentFns => Cardinality(lex.yes) = 1
     /\ Cardinality({fn \in DentFns : Dent(fn, lex.l).r}) = 1
     /\ lex.yes \subseteq {fn \in DentFns : Dent(fn, lex.l).r}

\* all three were asked with the column on the last indent stop: nodent
Wit_C39 ==
  /\ lex.pc = "dent" /\ lex.asked = DentFns /\ lex.yes = {"nodent"}
  /\ lex.l.tab_ # <<>> /\ Back(lex.l.tab_) = lex.l.col_ /\ lex.l.col_ > 0

\* all three were asked with the column before the last indent stop: dedent
Wit_C39_dedent ==
  /\ lex.pc = "dent" /\ lex.asked = DentFns /\ lex.yes = {"dedent"}
  /\ Len(lex.l.tab_) = 2 /\ Back(lex.l.tab_) > lex.l.col_

(***************************************************************************)
(* Specifications                                                          *)
(***************************************************************************)

SpecOpcode == OpInit /\ [][OpNext]_vars

SpecLexer == LexInit /\ [][LexNext]_vars

SpecInput == InputInit /\ [][Get]_vars

SpecCaller == CallerInit /\ [][InputNext]_vars

SpecPredict == PredInit /\ [][PredNext]_vars

SpecError == ErrInit /\ [][ReportError]_vars

SpecChars == CharsInit /\ [][CharsNext]_vars

SpecPosition == PosInit /\ [][PosNext]_vars

SpecModifiers == ModInit /\ [][UpdateModified]_vars

SpecCodec == CodecInit /\ [][CodecNext]_vars

SpecText == TextInit /\ [][TextNext]_vars

SpecOwner == OwnInit /\ [][OwnNext]_vars

SpecArena == ArenaInit /\ [][ArenaNext]_vars

SpecPair == PairInit /\ [][PairNext]_vars

SpecSplit == SplitInit /\ [][Split]_vars

SpecDetect == DetectInit /\ [][DetectNext]_vars

SpecIndent == IndInit /\ [][IndNext]_vars

SpecEdges == EdgeInit /\ [][CompileState]_vars

SpecCase == CaseInit /\ [][ApplyCase]_vars

SpecRange == RangeInit /\ [][Utf8Range]_vars

SpecRaw == RawInit /\ [][RawNext]_vars

SpecMove == MoveInit /\ [][MoveNext]_vars

SpecPass == PassInit /\ [][PassGet]_vars

SpecDent == DentInit /\ [][DentNext]_vars

SpecTrack == TrackInit /\ [][TrackNext]_vars

\* the FSM function and scan() run on: a step that can be taken is taken
SpecRedo == RedoInit /\ [][RedoNext]_vars /\ WF_vars(RedoNext)

====
